---- MODULE Spec2Model ----
(***************************************************************************)
(* Azure Log Analyzer web front end (src/static/js/app.js, and the         *)
(* visualization build of the same script, src/unnamed/part_000).          *)
(*                                                                         *)
(* The browser runs one handler at a time to completion; a handler that    *)
(* awaits a fetch is split at the await: the part before it is the issue   *)
(* action, the part after `await response.json()` is the response action.  *)
(* Strings are TLA+ strings, JavaScript null and undefined are the         *)
(* sentinel strings "null" and "undefined".  A result set is held by       *)
(* reference: state.lastResults holds the name of the table whose rows it  *)
(* is, and Table gives the rows and columns behind the name.               *)
(***************************************************************************)
EXTENDS Integers, Sequences, FiniteSets, TLC

VARIABLES
    variant,         \* which build of the script the page loaded: "app" | "viz"
    now,             \* Date.now(), in clock ticks
    storage,         \* localStorage: [history, favorites], each a stored value
    queryHistory,    \* state.queryHistory
    favorites,       \* state.favorites
    lastResults,     \* state.lastResults   (a table name or "null")
    lastColumns,     \* state.lastColumns   (a table name or "null")
    lastQuestion,    \* state.lastQuestion
    lastKql,         \* state.lastKql
    currentKql,      \* state.currentKql
    currentResults,  \* state.currentResults
    queryCount,      \* state.queryCount
    currentChart,    \* state.currentChart: 0 (null) or the number of a Chart
    charts,          \* charts[i]: how many times destroy() was called on Chart i
    pending,         \* query requests in flight, in the order they were issued
    issued,          \* number of query requests sent so far
    toggled,         \* number of favorite toggles so far
    display,         \* style.display of the containers ("none" = hidden)
    dataColumn,      \* elements.dataColumn.value (viz build), <<>> when unset
    columnOptions,   \* the options of the data column selector (viz build)
    toasts,          \* the toasts the last handler showed, in order
    event,           \* the handler that ran last, with its inputs
    recordLog,       \* every text handed to addToHistory since the list was
                     \* last emptied, oldest first (history variable)
    answered,        \* the request whose results were taken in last, with the
                     \* body it was answered with (history variable)
    startup,         \* how the DOMContentLoaded handler went, and what kind
                     \* of value each list field holds after it
    selectedTimeRange, \* state.selectedTimeRange
    customTimeStart, \* state.customTimeStart
    customTimeEnd,   \* state.customTimeEnd
    timeFilter,      \* the timeFilter of the last question sent
    chatHistory,     \* state.chatHistory
    chatRequests,    \* /api/chat requests in flight, each with its body
    stats,           \* what calculateStatistics returned last (viz build)
    chartSpec,       \* what the Chart constructed last was given (viz build)
    insightRequests, \* /api/analyze/results requests in flight
    insights,        \* the AI insights panel, and the query whose results
                     \* its text was computed for
    chatView         \* the elements of the chat view with their ids,
                     \* Date.now() in milliseconds, the typing indicators of
                     \* the requests in flight, and whether a message was
                     \* ever sent while another was unanswered

vars == <<variant, now, storage, queryHistory, favorites,
          lastResults, lastColumns, lastQuestion, lastKql, currentKql,
          currentResults, queryCount, currentChart, charts, pending, issued,
          toggled,
          display, dataColumn, columnOptions, toasts, event, recordLog,
          answered, startup, selectedTimeRange, customTimeStart,
          customTimeEnd, timeFilter, chatHistory, chatRequests, stats,
          chartSpec, insightRequests, insights, chatView>>

-----------------------------------------------------------------------------
(* Bounds of the model *)

MaxNow == 1          \* clock ticks in one session
MaxIssued == 2       \* query requests sent in one session
MaxPending == 2      \* query requests in flight at once
MaxCharts == 3       \* Chart instances constructed in one session
MaxToggles == 2      \* favorite toggles in one session
MaxDestroys == 2     \* destroy() calls counted on one Chart
MaxChatTurns == 12   \* turns of the chat transcript in one session
MaxChatPending == 2  \* chat requests in flight at once

(* Program constants *)

HistoryLimit == 50   \* slice(0, 50) in addToHistory and saveHistoryToStorage
ContextRows == 20    \* currentResults?.slice(0, 20) in sendChatMessage
ChatWindow == 10     \* chatHistory.slice(-10) in sendChatMessage

-----------------------------------------------------------------------------
(* Sequence helpers (Array.prototype.filter / slice / unshift / map) *)

RECURSIVE FilterSeq(_, _)
\* s.filter(x => x.query # q)
FilterSeq(s, q) ==
    IF s = <<>> THEN <<>>
    ELSE IF Head(s).query # q THEN <<Head(s)>> \o FilterSeq(Tail(s), q)
         ELSE FilterSeq(Tail(s), q)

\* s.slice(0, n)
Slice(s, n) == SubSeq(s, 1, IF Len(s) < n THEN Len(s) ELSE n)

\* the elements of a sequence
Range(seq) == {seq[i] : i \in 1..Len(seq)}

\* s.unshift(e)
Unshift(s, e) == <<e>> \o s

\* the query texts of a list, in order
Texts(s) == [i \in 1..Len(s) |-> s[i].query]

\* s.some(x => x.query = q)
HasQuery(s, q) == \E i \in 1..Len(s) : s[i].query = q

-----------------------------------------------------------------------------
(* JSON.stringify / JSON.parse of the two persisted lists.                  *)
(* A JSON object is the sequence of its <<key, value text>> pairs in        *)
(* property order; a number is written in decimal, a string in quotes, and  *)
(* a property whose value is undefined is left out.  Parsing reads the      *)
(* texts back; a property that is not there reads as undefined.             *)

\* new Date(t).toISOString(): the text of instant t
ToISOString(t) == "T" \o ToString(t)

\* the instants a session can see: earlier sessions are negative
Instants == (0 - HistoryLimit - 1)..(MaxNow + 1)

\* result counts the query service reports
Counts == 0..2

\* the query texts typed in this session; "h1" was also run long ago
InputTexts == {"h1", "errors", "logins"}

\* the query texts of earlier sessions, "h1" the oldest
OldText(i) == "h" \o ToString(i)
OldTexts == {OldText(i) : i \in 1..(HistoryLimit + 1)}

\* the KQL the translation service returns (it may return none)
Kqls == {"K1", "K2", "undefined"}

StringValues ==
    InputTexts \cup OldTexts \cup Kqls \cup {""}
        \cup {ToISOString(t) : t \in Instants}

JsonNumber(n) == ToString(n)
JsonString(str) == "\"" \o str \o "\""

ParseJsonNumber(txt) == CHOOSE n \in Instants \cup Counts : JsonNumber(n) = txt
ParseJsonString(txt) == CHOOSE str \in StringValues : JsonString(str) = txt

\* the pairs of one object, undefined-valued properties dropped
JsonPairs(pairs) == SelectSeq(pairs, LAMBDA p : p[2] # "undefined")

\* obj[key] of a parsed object, as text; "undefined" when the key is absent
JsonGet(obj, key) ==
    IF \E i \in 1..Len(obj) : obj[i][1] = key
    THEN obj[CHOOSE i \in 1..Len(obj) : obj[i][1] = key][2]
    ELSE "undefined"

JsonGetString(obj, key) ==
    IF JsonGet(obj, key) = "undefined" THEN "undefined"
    ELSE ParseJsonString(JsonGet(obj, key))

StringifyHistoryEntry(e) ==
    JsonPairs(<< <<"id", JsonNumber(e.id)>>,
                 <<"query", JsonString(e.query)>>,
                 <<"kql", IF e.kql = "undefined" THEN "undefined"
                          ELSE JsonString(e.kql)>>,
                 <<"resultCount", JsonNumber(e.resultCount)>>,
                 <<"timestamp", JsonString(e.timestamp)>> >>)

ParseHistoryEntry(obj) ==
    [id |-> ParseJsonNumber(JsonGet(obj, "id")),
     query |-> JsonGetString(obj, "query"),
     kql |-> JsonGetString(obj, "kql"),
     resultCount |-> ParseJsonNumber(JsonGet(obj, "resultCount")),
     timestamp |-> JsonGetString(obj, "timestamp")]

StringifyFavorite(f) ==
    JsonPairs(<< <<"id", JsonNumber(f.id)>>,
                 <<"query", JsonString(f.query)>>,
                 <<"kql", IF f.kql = "undefined" THEN "undefined"
                          ELSE JsonString(f.kql)>>,
                 <<"timestamp", JsonString(f.timestamp)>> >>)

ParseFavorite(obj) ==
    [id |-> ParseJsonNumber(JsonGet(obj, "id")),
     query |-> JsonGetString(obj, "query"),
     kql |-> JsonGetString(obj, "kql"),
     timestamp |-> JsonGetString(obj, "timestamp")]

\* a localStorage value: getItem gives null (present = FALSE) or the text
NoItem == [present |-> FALSE, json |-> <<>>, form |-> "list"]
Item(json) == [present |-> TRUE, json |-> json, form |-> "list"]

\* stored texts that are not the JSON of a list: the empty text, a text
\* JSON.parse throws on, and the JSON of null, of a number, of an object
OtherItem(form) == [present |-> TRUE, json |-> <<>>, form |-> form]
OtherForms == {"empty", "unparsable", "null", "number", "object"}

\* the kind of value `saved ? JSON.parse(saved) : []` leaves in the list
\* field, the catch block included: an empty text is falsy and a throwing
\* parse is caught, both give []; null, a number and an object parse
StoredKind(saved) ==
    IF saved.form \in {"null", "number", "object"} THEN saved.form ELSE "list"

-----------------------------------------------------------------------------
(* History / favorites store *)

\* loadHistoryFromStorage: saved ? JSON.parse(saved) : []
\* (the entries, when what the field then holds is a list)
loadHistoryFromStorage(saved) ==
    IF saved.present /\ saved.form = "list"
    THEN [i \in 1..Len(saved.json) |-> ParseHistoryEntry(saved.json[i])]
    ELSE <<>>

\* loadFavoritesFromStorage
loadFavoritesFromStorage(saved) ==
    IF saved.present /\ saved.form = "list"
    THEN [i \in 1..Len(saved.json) |-> ParseFavorite(saved.json[i])]
    ELSE <<>>

\* JSON.stringify(state.queryHistory.slice(0, 50))
HistoryJson(history) ==
    LET kept == Slice(history, HistoryLimit)
    IN  [i \in 1..Len(kept) |-> StringifyHistoryEntry(kept[i])]

\* JSON.stringify(state.favorites)
FavoritesJson(favs) == [i \in 1..Len(favs) |-> StringifyFavorite(favs[i])]

\* saveHistoryToStorage: setItem in a try block; a throwing setItem (quota)
\* is caught and leaves the stored value as it was
saveHistoryToStorage(store, history, writeOk) ==
    IF writeOk THEN [store EXCEPT !.history = Item(HistoryJson(history))]
    ELSE store

\* Faulty variant of saveFavoritesToStorage: an empty list is not written
saveFavoritesToStorage_SkipEmpty(store, favs, writeOk) ==
    IF writeOk /\ favs # <<>>
    THEN [store EXCEPT !.favorites = Item(FavoritesJson(favs))]
    ELSE store

\* saveFavoritesToStorage
saveFavoritesToStorage(store, favs, writeOk) ==
    IF writeOk THEN [store EXCEPT !.favorites = Item(FavoritesJson(favs))]
    ELSE store

\* the entry addToHistory builds
HistoryEntry(query, kql, resultCount, t) ==
    [id |-> t, query |-> query, kql |-> kql, resultCount |-> resultCount,
     timestamp |-> ToISOString(t)]

\* Faulty variants of addToHistory, each leaving out one of its steps: the
\* filter, the order of unshift and slice, the position of the new entry
addToHistory_NoDedup(history, query, kql, resultCount, t) ==
    Slice(Unshift(history, HistoryEntry(query, kql, resultCount, t)),
          HistoryLimit)

addToHistory_CapFirst(history, query, kql, resultCount, t) ==
    Unshift(Slice(FilterSeq(history, query), HistoryLimit),
            HistoryEntry(query, kql, resultCount, t))

addToHistory_Append(history, query, kql, resultCount, t) ==
    Slice(Append(FilterSeq(history, query),
                 HistoryEntry(query, kql, resultCount, t)),
          HistoryLimit)

\* addToHistory, the list it leaves in state.queryHistory
addToHistory(history, query, kql, resultCount, t) ==
    Slice(Unshift(FilterSeq(history, query),
                  HistoryEntry(query, kql, resultCount, t)),
          HistoryLimit)

\* isFavorite
isFavorite(favs, query) == HasQuery(favs, query)

\* Faulty variant of toggleFavorite: the list is cut like the history is
toggleFavorite_Capped(favs, query, kql, t) ==
    IF HasQuery(favs, query)
    THEN FilterSeq(favs, query)
    ELSE Slice(Unshift(favs, [id |-> t, query |-> query, kql |-> kql,
                              timestamp |-> ToISOString(t)]),
               HistoryLimit)

\* toggleFavorite, the list it leaves in state.favorites
toggleFavorite(favs, query, kql, t) ==
    IF isFavorite(favs, query)
    THEN FilterSeq(favs, query)
    ELSE Unshift(favs, [id |-> t, query |-> query, kql |-> kql,
                        timestamp |-> ToISOString(t)])

-----------------------------------------------------------------------------
(* JavaScript values of result rows.  A string is the sequence of its       *)
(* characters, so that parseFloat and String.includes can be computed.      *)

JsNull == [t |-> "null", n |-> 0, s |-> <<>>]
JsUndefined == [t |-> "undefined", n |-> 0, s |-> <<>>]
JsNumber(n) == [t |-> "number", n |-> n, s |-> <<>>]
JsString(chars) == [t |-> "string", n |-> 0, s |-> chars]

\* typeof v === 'number'
IsNumber(v) == v.t = "number"

Digits == <<"0", "1", "2", "3", "4", "5", "6", "7", "8", "9">>
IsDigit(c) == \E d \in 1..Len(Digits) : Digits[d] = c
DigitValue(c) == (CHOOSE d \in 1..Len(Digits) : Digits[d] = c) - 1

RECURSIVE DigitPrefix(_)
\* the longest prefix of digits
DigitPrefix(chars) ==
    IF chars # <<>> /\ IsDigit(Head(chars))
    THEN <<Head(chars)>> \o DigitPrefix(Tail(chars))
    ELSE <<>>

RECURSIVE DigitsValue(_, _)
DigitsValue(chars, acc) ==
    IF chars = <<>> THEN acc
    ELSE DigitsValue(Tail(chars), 10 * acc + DigitValue(Head(chars)))

\* parseFloat(v), as [nan, n]: a number is itself; a string is its longest
\* numeric prefix (an optional sign and digits: the model's strings hold no
\* '.', exponent or white space); anything else is NaN
NaN == [nan |-> TRUE, n |-> 0]
parseFloat(v) ==
    IF v.t = "number" THEN [nan |-> FALSE, n |-> v.n]
    ELSE IF v.t # "string" THEN NaN
    ELSE LET neg == v.s # <<>> /\ Head(v.s) = "-"
             body == IF neg THEN Tail(v.s) ELSE v.s
             ds == DigitPrefix(body)
         IN  IF ds = <<>> THEN NaN
             ELSE [nan |-> FALSE,
                   n |-> IF neg THEN 0 - DigitsValue(ds, 0)
                         ELSE DigitsValue(ds, 0)]

\* typeof v === 'number' || !isNaN(parseFloat(v))
LooksNumeric(v) == IsNumber(v) \/ ~parseFloat(v).nan

\* row[col]
Cell(row, col) == IF col \in DOMAIN row THEN row[col] ELSE JsUndefined

UpperCase == <<"A","B","C","D","E","F","G","H","I","J","K","L","M",
               "N","O","P","Q","R","S","T","U","V","W","X","Y","Z">>
LowerCase == <<"a","b","c","d","e","f","g","h","i","j","k","l","m",
               "n","o","p","q","r","s","t","u","v","w","x","y","z">>

\* String.prototype.toLowerCase
toLowerCase(chars) ==
    [i \in 1..Len(chars) |->
        IF \E k \in 1..Len(UpperCase) : UpperCase[k] = chars[i]
        THEN LowerCase[CHOOSE k \in 1..Len(UpperCase) : UpperCase[k] = chars[i]]
        ELSE chars[i]]

\* String.prototype.includes
includes(chars, sub) ==
    \E i \in 0..(Len(chars) - Len(sub)) :
        SubSeq(chars, i + 1, i + Len(sub)) = sub

-----------------------------------------------------------------------------
(* The result sets the query service returns in the model *)

ColLevel == <<"L","e","v","e","l">>
ColCount == <<"C","o","u","n","t">>
ColNote == <<"N","o","t","e">>
ColCode == <<"C","o","d","e">>

StrError == JsString(<<"E","r","r","o","r">>)
StrWarning == JsString(<<"W","a","r","n">>)

\* result sets for the statistics
WideRows == 21
Repeat(c, n) == [i \in 1..n |-> c]
WideColumns ==
    << <<"S","a","m","e">>, <<"N","1">>, <<"C","u","t">>, <<"N","2">>,
       <<"T","w","e","n","t","y","O","n","e">>, <<"T","w","e","n","t","y">>,
       <<"N","3">>, <<"N","u","l","l","s">>, <<"T","w","o">>, <<"N","4">>,
       <<"N","5">>, <<"C","a","t","3">>, <<"N","6">>, <<"C","a","t","4">> >>

\* row i of the wide result set
WideRow(i) ==
    <<"S","a","m","e">> :> JsString(<<"a">>)
    @@ <<"N","1">> :> JsNumber(((i * 7) % 5) + 1)
    @@ <<"C","u","t">> :> JsString(Repeat("a", 50)
                                    \o (IF i % 2 = 0 THEN <<"x">> ELSE <<"y">>))
    @@ <<"N","2">> :> JsString(IF i % 3 = 0 THEN <<"1","2">> ELSE <<"7">>)
    @@ <<"T","w","e","n","t","y","O","n","e">> :> JsString(<<"v", LowerCase[i]>>)
    @@ <<"T","w","e","n","t","y">>
           :> JsString(<<"w", LowerCase[((i - 1) % 20) + 1]>>)
    @@ <<"N","3">> :> JsNumber(3 - i)
    @@ <<"N","u","l","l","s">> :> (IF i % 2 = 0 THEN JsNull ELSE JsUndefined)
    @@ <<"T","w","o">> :> (IF i < 3 THEN StrWarning ELSE StrError)
    @@ <<"N","4">> :> (IF i % 4 = 0 THEN JsNull ELSE JsNumber(i))
    @@ <<"N","5">> :> JsString(<<"5","x","x">>)
    @@ <<"C","a","t","3">> :> (IF i = 2 THEN JsNumber(7) ELSE StrError)
    @@ <<"N","6">> :> JsNumber(1)
    @@ <<"C","a","t","4">> :> (IF i = 1 THEN StrWarning ELSE StrError)

\* result sets for the charts
LongRows == 52        \* rows of the long result set, more than a chart takes
ColStatusDate == <<"S","t","a","t","u","s","D","a","t","e">>
StrLong == JsString(Repeat("m", 31))
StrDay == JsString(<<"2","0","2","4","-","0","1","-","0","1">>)

\* row i of the long result set: a level that is at times a long string or
\* null, and a count that is at times a digit string, a word or null
LongRow(i) ==
    ColLevel :> (IF i % 5 = 0 THEN StrLong
                 ELSE IF i % 7 = 0 THEN JsNull
                 ELSE IF i % 2 = 0 THEN StrWarning ELSE StrError)
    @@ ColCount :> (IF i % 4 = 0 THEN JsString(<<"1", "2">>)
                    ELSE IF i % 3 = 0 THEN JsString(<<"x">>)
                    ELSE IF i % 11 = 0 THEN JsNull
                    ELSE JsNumber(i))

\* one-column result sets of three rows, one for each choice of values
GenValues ==
    << JsNull, JsNumber(3), JsNumber(0 - 2), JsString(<<"7">>),
       JsString(<<"x">>), JsString(<<"1","0">>) >>
GenIndex == (1..Len(GenValues)) \X (1..Len(GenValues)) \X (1..Len(GenValues))
GenName(t) == "g" \o Digits[t[1]] \o Digits[t[2]] \o Digits[t[3]]
GenNames == {GenName(t) : t \in GenIndex}
GenTable(t) ==
    [columns |-> <<ColCode>>,
     rows |-> [i \in 1..3 |-> (ColCode :> GenValues[t[i]])]]

TableNames == {"empty", "levels", "notes"}

\* the columns and rows of each result set:
\*   empty  - no rows
\*   levels - a string column and a number column
\*   notes  - only strings, none of them numeric
\*   many   - more rows than the chat context takes
\*   repeat - a level that occurs twice and one that occurs once
\*   codes  - a column of a word and two status numbers
\*   wide   - columns at each boundary of the statistics
\*   long   - more rows than a chart takes, with values that do not parse
\*   digits - a column of words and a column of digit strings
\*   dated  - a column named after a status and a date, before a level
Table(name) ==
    CASE name = "levels" ->
           [columns |-> <<ColLevel, ColCount>>,
            rows |-> << (ColLevel :> StrError @@ ColCount :> JsNumber(5)),
                        (ColLevel :> StrWarning @@ ColCount :> JsNumber(2)) >>]
      [] name = "notes" ->
           [columns |-> <<ColNote, ColCode>>,
            rows |-> << (ColNote :> StrError @@ ColCode :> JsString(<<"x", "1">>)),
                        (ColNote :> StrWarning @@ ColCode :> JsNull) >>]
      [] name = "many" ->
           [columns |-> <<ColCount>>,
            rows |-> [i \in 1..(ContextRows + 2) |-> (ColCount :> JsNumber(i))]]
      [] name = "repeat" ->
           [columns |-> <<ColLevel>>,
            rows |-> << (ColLevel :> StrError), (ColLevel :> StrWarning),
                        (ColLevel :> StrError) >>]
      [] name = "codes" ->
           [columns |-> <<ColCode>>,
            rows |-> << (ColCode :> JsString(<<"e","r","r","o","r">>)),
                        (ColCode :> JsNumber(500)),
                        (ColCode :> JsNumber(404)) >>]
      [] name = "long" ->
           [columns |-> <<ColLevel, ColCount>>,
            rows |-> [i \in 1..LongRows |-> LongRow(i)]]
      [] name = "digits" ->
           [columns |-> <<ColNote, ColCode>>,
            rows |-> << (ColNote :> StrError @@ ColCode :> JsString(<<"1","2">>)),
                        (ColNote :> StrWarning @@ ColCode :> JsString(<<"7">>)) >>]
      [] name = "dated" ->
           [columns |-> <<ColStatusDate, ColLevel, ColCount>>,
            rows |-> << (ColStatusDate :> StrDay @@ ColLevel :> StrError
                            @@ ColCount :> JsNumber(5)),
                        (ColStatusDate :> StrDay @@ ColLevel :> StrWarning
                            @@ ColCount :> JsNumber(2)) >>]
      [] name = "wide" ->
           [columns |-> WideColumns,
            rows |-> [i \in 1..WideRows |-> WideRow(i)]]
      [] name \in GenNames ->
           GenTable(CHOOSE t \in GenIndex : GenName(t) = name)
      [] OTHER -> [columns |-> <<ColLevel, ColCount>>, rows |-> <<>>]

\* !results || results.length === 0
NoRows(ref) == ref = "null" \/ Table(ref).rows = <<>>

-----------------------------------------------------------------------------
(* Statistics (visualization build): calculateStatistics *)

KeyLength == 50
MaxDistinct == 20
NumericLimit == 5
CategoryLimit == 3

\* values = data.map(row => row[col])
\*              .filter(v => v !== null && v !== undefined)
ColumnValues(data, col) ==
    SelectSeq([i \in 1..Len(data) |-> Cell(data[i], col)],
              LAMBDA v : v.t \notin {"null", "undefined"})

\* values.filter(v => typeof v === 'number' || !isNaN(parseFloat(v)))
\*       .map(v => parseFloat(v))
NumericValues(values) ==
    LET kept == SelectSeq(values, LAMBDA v : LooksNumeric(v))
    IN  [i \in 1..Len(kept) |-> parseFloat(kept[i]).n]

MathMin_First(ns) == ns[1]

\* Math.min(...ns), Math.max(...ns)
MathMin(ns) == CHOOSE m \in Range(ns) : \A n \in Range(ns) : m <= n
MathMax(ns) == CHOOSE m \in Range(ns) : \A n \in Range(ns) : m >= n

RECURSIVE Sum(_)
\* ns.reduce((a, b) => a + b, 0)
Sum(ns) == IF ns = <<>> THEN 0 ELSE Head(ns) + Sum(Tail(ns))

\* the entry of a numeric column; the quotient avg is kept as the fraction
\* num / den
NumericStat(col, ns) ==
    [column |-> col, min |-> MathMin(ns), max |-> MathMax(ns),
     avg |-> [num |-> Sum(ns), den |-> Len(ns)], sum |-> Sum(ns)]

RECURSIVE NatChars(_)
\* the decimal digits of a natural number
NatChars(n) ==
    IF n < 10 THEN <<Digits[n + 1]>>
    ELSE NatChars(n \div 10) \o <<Digits[(n % 10) + 1]>>

\* String(v) of a number or a string
StringOf(v) ==
    IF v.t = "number"
    THEN IF v.n < 0 THEN <<"-">> \o NatChars(0 - v.n) ELSE NatChars(v.n)
    ELSE v.s

\* String(v).substring(0, 50)
CategoryKey(v) == Slice(StringOf(v), KeyLength)

RECURSIVE InsertionKeys(_, _)
\* the keys of counts in the order they were first assigned
InsertionKeys(values, seen) ==
    IF values = <<>> THEN seen
    ELSE InsertionKeys(Tail(values),
                       IF CategoryKey(Head(values)) \in Range(seen) THEN seen
                       ELSE Append(seen, CategoryKey(Head(values))))

\* counts[key]
CountOf(values, key) ==
    Cardinality({i \in 1..Len(values) : CategoryKey(values[i]) = key})

\* a property key that is an array index: the canonical decimal form of an
\* integer below 2^32 - 1 (the keys of the model have at most nine digits)
IsArrayIndex(chars) ==
    /\ chars # <<>>
    /\ Len(chars) <= 9
    /\ \A i \in 1..Len(chars) : IsDigit(chars[i])
    /\ Len(chars) = 1 \/ chars[1] # "0"

RECURSIVE AscendingIndexKeys(_)
\* array-index keys in ascending numeric order
AscendingIndexKeys(keys) ==
    IF keys = {} THEN <<>>
    ELSE LET least == CHOOSE k \in keys :
                          \A o \in keys : DigitsValue(k, 0) <= DigitsValue(o, 0)
         IN  <<least>> \o AscendingIndexKeys(keys \ {least})

\* the key order of Object.entries / Object.keys: array-index keys first, in
\* ascending numeric order, then the other keys in insertion order
OwnKeys(inserted) ==
    AscendingIndexKeys({k \in Range(inserted) : IsArrayIndex(k)})
        \o SelectSeq(inserted, LAMBDA k : ~IsArrayIndex(k))

RECURSIVE SortByCountDesc(_, _)
\* entries.sort((a, b) => b.count - a.count): a stable sort, the entries of
\* each count from the highest down keeping their order
SortByCountDesc(entries, highest) ==
    IF highest = 0 THEN <<>>
    ELSE SelectSeq(entries, LAMBDA e : e.count = highest)
             \o SortByCountDesc(entries, highest - 1)

\* Object.entries(counts).map(([value, count]) => ({ value, count }))
\*       .sort((a, b) => b.count - a.count)
CategoryValues(values) ==
    LET keys == OwnKeys(InsertionKeys(values, <<>>))
    IN  SortByCountDesc([i \in 1..Len(keys) |->
                            [value |-> keys[i],
                             count |-> CountOf(values, keys[i])]],
                        Len(values))

\* numericValues.length > 0 && numericValues.length === values.length
IsNumericColumn(values) ==
    /\ Len(NumericValues(values)) > 0
    /\ Len(NumericValues(values)) = Len(values)

IsCategoryColumn_Below(values) ==
    /\ ~IsNumericColumn(values)
    /\ Len(values) > 0
    /\ Len(InsertionKeys(values, <<>>)) < MaxDistinct
    /\ Len(InsertionKeys(values, <<>>)) > 1

\* else if (values.length > 0), uniqueValues <= 20 && uniqueValues > 1
IsCategoryColumn(values) ==
    /\ ~IsNumericColumn(values)
    /\ Len(values) > 0
    /\ Len(InsertionKeys(values, <<>>)) <= MaxDistinct
    /\ Len(InsertionKeys(values, <<>>)) > 1

RECURSIVE numericStatsOf(_, _)
\* numericStats after the loop over the columns
numericStatsOf(data, columns) ==
    IF columns = <<>> THEN <<>>
    ELSE LET values == ColumnValues(data, Head(columns))
         IN  (IF IsNumericColumn(values)
              THEN <<NumericStat(Head(columns), NumericValues(values))>>
              ELSE <<>>)
                 \o numericStatsOf(data, Tail(columns))

RECURSIVE categoryStatsOf(_, _)
\* categoryStats after the loop over the columns
categoryStatsOf(data, columns) ==
    IF columns = <<>> THEN <<>>
    ELSE LET values == ColumnValues(data, Head(columns))
         IN  (IF IsCategoryColumn(values)
              THEN <<[column |-> Head(columns),
                      values |-> CategoryValues(values)]>>
              ELSE <<>>)
                 \o categoryStatsOf(data, Tail(columns))

\* calculateStatistics(data, columns)
calculateStatistics(data, columns) ==
    [numericStats |-> Slice(numericStatsOf(data, columns), NumericLimit),
     categoryStats |-> Slice(categoryStatsOf(data, columns), CategoryLimit)]

-----------------------------------------------------------------------------
(* Chart column selection (visualization build) *)

numericPriority ==
    << <<"c","o","u","n","t">>, <<"c","o","u","n","t","_">>, <<"s","u","m">>,
       <<"a","v","g">>, <<"m","i","n">>, <<"m","a","x">>,
       <<"v","a","l","u","e">>, <<"t","o","t","a","l">>,
       <<"d","u","r","a","t","i","o","n">>, <<"s","i","z","e">>,
       <<"C","o","u","n","t","e","r","V","a","l","u","e">>,
       <<"R","e","s","u","l","t","C","o","u","n","t">> >>

\* the first element of seq that is in passing, or <<>> when there is none
FirstWhere(seq, passing) ==
    IF \E i \in 1..Len(seq) : seq[i] \in passing
    THEN seq[CHOOSE i \in 1..Len(seq) :
                 /\ seq[i] \in passing
                 /\ \A j \in 1..(i - 1) : seq[j] \notin passing]
    ELSE <<>>

\* findNumericColumn: the first column with a numeric-looking value among the
\* first ten rows, else the first column
findNumericColumn(data, columns) ==
    LET sample == Slice(data, 10)
        numeric(col) == \E i \in 1..Len(sample) : LooksNumeric(Cell(sample[i], col))
        found == FirstWhere(columns, {c \in Range(columns) : numeric(c)})
    IN  IF found # <<>> THEN found ELSE columns[1]

\* analyzeDataForChart, its choice of value column; <<>> stands for null
\* (the function then returns null: "not chartable")
ValueColumn(data, columns, preferredColumn) ==
    LET hasNumeric ==
            \E i \in 1..Len(data) : LooksNumeric(Cell(data[i], preferredColumn))
        preferred ==
            IF preferredColumn # <<>> /\ hasNumeric THEN preferredColumn ELSE <<>>
        priority(col) ==
            /\ \E k \in 1..Len(numericPriority) :
                   includes(toLowerCase(col), toLowerCase(numericPriority[k]))
            /\ IsNumber(Cell(data[1], col))
        firstNumber(col) == IsNumber(Cell(data[1], col))
    IN  IF preferred # <<>> THEN preferred
        ELSE LET byName == FirstWhere(columns,
                                      {c \in Range(columns) : priority(c)})
             IN  IF byName # <<>> THEN byName
                 ELSE FirstWhere(columns,
                                 {c \in Range(columns) : firstNumber(c)})

labelPriority ==
    << <<"n","a","m","e">>, <<"t","y","p","e">>,
       <<"c","a","t","e","g","o","r","y">>,
       <<"c","o","m","p","u","t","e","r">>,
       <<"r","e","s","o","u","r","c","e">>, <<"l","e","v","e","l">>,
       <<"s","t","a","t","u","s">> >>

\* col.toLowerCase().includes('time') || col.toLowerCase().includes('date')
TimeNamed(col) ==
    \/ includes(toLowerCase(col), <<"t","i","m","e">>)
    \/ includes(toLowerCase(col), <<"d","a","t","e">>)

\* analyzeDataForChart, its choice of label column: the first column other
\* than the value column whose name holds a label keyword; else the first
\* other column not named after a time or date whose first value is a
\* string; else the first column named after a time; else the first column
LabelColumn(data, columns, valueColumn) ==
    LET byName ==
            FirstWhere(columns,
                       {c \in Range(columns) :
                           /\ c # valueColumn
                           /\ \E k \in 1..Len(labelPriority) :
                                  includes(toLowerCase(c), labelPriority[k])})
        firstString ==
            FirstWhere(columns,
                       {c \in Range(columns) :
                           /\ c # valueColumn
                           /\ ~TimeNamed(c)
                           /\ Cell(data[1], c).t = "string"})
        timeColumn ==
            FirstWhere(columns,
                       {c \in Range(columns) :
                           includes(toLowerCase(c), <<"t","i","m","e">>)})
    IN  IF byName # <<>> THEN byName
        ELSE IF firstString # <<>> THEN firstString
        ELSE IF timeColumn # <<>> THEN timeColumn
        ELSE columns[1]

LabelLength == 30
ChartRows == 50

\* a label: a string of more than 30 characters is cut to 30 and '...',
\* anything else is String(val ?? 'N/A')
ChartLabel(val) ==
    IF val.t = "string" /\ Len(val.s) > LabelLength
    THEN SubSeq(val.s, 1, LabelLength) \o <<".", ".", ".">>
    ELSE IF val.t \in {"null", "undefined"} THEN <<"N", "/", "A">>
    ELSE StringOf(val)

\* a value: typeof val === 'number' ? val : parseFloat(val) || 0
ChartValue(val) ==
    IF val.t = "number" THEN val.n
    ELSE IF parseFloat(val).nan THEN 0
    ELSE parseFloat(val).n

ChartValues_Dropped(data, valueColumn) ==
    LET kept == SelectSeq(data, LAMBDA row :
                              LooksNumeric(Cell(row, valueColumn)))
    IN  [i \in 1..Len(kept) |-> ChartValue(Cell(kept[i], valueColumn))]

\* data.map(row => ...row[valueColumn]...)
ChartValues(data, valueColumn) ==
    [i \in 1..Len(data) |-> ChartValue(Cell(data[i], valueColumn))]

\* analyzeDataForChart(data, columns, preferredColumn), when it returns a
\* chart description
analyzeDataForChart(data, columns, preferredColumn) ==
    LET valueColumn == ValueColumn(data, columns, preferredColumn)
        labelColumn == LabelColumn(data, columns, valueColumn)
    IN  [labels |-> [i \in 1..Len(data) |->
                        ChartLabel(Cell(data[i], labelColumn))],
         values |-> ChartValues(data, valueColumn),
         labelColumn |-> labelColumn,
         valueColumn |-> valueColumn]

-----------------------------------------------------------------------------
(* What the services answer *)

\* `await fetch` / `await response.json()` either throws (failed, with the
\* exception's message) or yields the body: an error field, or kql, results,
\* columns and row_count
FailedFetch(message) ==
    [failed |-> TRUE, message |-> message, error |-> "", kql |-> "undefined",
     table |-> "empty", row_count |-> 0]
ErrorBody(error) ==
    [failed |-> FALSE, message |-> "", error |-> error, kql |-> "undefined",
     table |-> "empty", row_count |-> 0]
ResultBody(kql, table) ==
    [failed |-> FALSE, message |-> "", error |-> "", kql |-> kql,
     table |-> table, row_count |-> Len(Table(table).rows)]

UpstreamErrors == {"workspace not found"}
FetchFailures == {"Failed to fetch"}

Responses ==
    {FailedFetch(m) : m \in FetchFailures}
        \cup {ErrorBody(e) : e \in UpstreamErrors}
        \cup {ResultBody(k, t) : k \in Kqls, t \in TableNames}

\* what the direct-query endpoint answers: no translated query
KqlResponses ==
    {FailedFetch(m) : m \in FetchFailures}
        \cup {ErrorBody(e) : e \in UpstreamErrors}
        \cup {ResultBody("undefined", t) : t \in TableNames}

-----------------------------------------------------------------------------
(* Time range picker: getTimeRangeFilter *)

\* the clock reading (seconds since 1970) at tick t: tick 0 is
\* 2024-01-01T12:00:00Z, every tick is 60 days, 1 hour, 1 minute and 1 second
\* later.  Dates are counted in seconds, not milliseconds.
ClockBase == 1704110400
ClockStep == 5187661
DateNow(t) == ClockBase + t * ClockStep

\* civil date of a day number (days since 1970-01-01)
CivilFromDays(days) ==
    LET z == days + 719468
        era == z \div 146097
        doe == z - era * 146097
        yoe == (doe - doe \div 1460 + doe \div 36524 - doe \div 146096) \div 365
        doy == doe - (365 * yoe + yoe \div 4 - yoe \div 100)
        mp == (5 * doy + 2) \div 153
        d == doy - (153 * mp + 2) \div 5 + 1
        m == IF mp < 10 THEN mp + 3 ELSE mp - 9
        y == yoe + era * 400 + (IF m <= 2 THEN 1 ELSE 0)
    IN  [year |-> y, month |-> m, day |-> d]

Pad2(n) == IF n < 10 THEN "0" \o ToString(n) ELSE ToString(n)

\* Date.prototype.toISOString of the instant `seconds`; the millisecond
\* field is 000
DateISOString(seconds) ==
    LET date == CivilFromDays(seconds \div 86400)
        rest == seconds % 86400
    IN  ToString(date.year) \o "-" \o Pad2(date.month) \o "-" \o Pad2(date.day)
            \o "T" \o Pad2(rest \div 3600) \o ":" \o Pad2((rest % 3600) \div 60)
            \o ":" \o Pad2(rest % 60) \o ".000Z"

\* a value that `if (x)` takes as true, among strings, null and undefined
Truthy(x) == x \notin {"", "null", "undefined"}

\* getTimeRangeFilter: startTime is a Date in every branch that reaches the
\* return, so the `startTime ? ... : ''` at the end always takes the clause
getTimeRangeFilter_ShortSix(selected, start, end, t) ==
    LET since(startTime) ==
            "| where TimeGenerated >= datetime('"
                \o DateISOString(startTime) \o "')"
    IN  IF selected = "6h" THEN since(t - 60 * 60)
                           ELSE since(t - 24 * 60 * 60)

getTimeRangeFilter_EmptyDefault(selected, start, end, t) ==
    IF selected \in {"1h", "6h", "24h", "7d", "30d"}
    THEN "| where TimeGenerated >= datetime('"
             \o DateISOString(t - 24 * 60 * 60) \o "')"
    ELSE ""

getTimeRangeFilter(selected, start, end, t) ==
    LET since(startTime) ==
            "| where TimeGenerated >= datetime('" \o DateISOString(startTime)
                \o "')"
    IN  CASE selected = "1h" -> since(t - 60 * 60)
          [] selected = "6h" -> since(t - 6 * 60 * 60)
          [] selected = "24h" -> since(t - 24 * 60 * 60)
          [] selected = "7d" -> since(t - 7 * 24 * 60 * 60)
          [] selected = "30d" -> since(t - 30 * 24 * 60 * 60)
          [] selected = "custom" ->
               IF Truthy(start) /\ Truthy(end)
               THEN "| where TimeGenerated between (datetime('" \o start
                        \o "') .. datetime('" \o end \o "'))"
               ELSE since(t - 24 * 60 * 60)
          [] OTHER -> since(t - 24 * 60 * 60)

-----------------------------------------------------------------------------
(* Shared pieces of the handlers *)

Event(op, query, msg, stored) ==
    [op |-> op, query |-> query, msg |-> msg, stored |-> stored]

Toast(message, type) == <<type, message>>

RemoveAt(seq, i) == SubSeq(seq, 1, i - 1) \o SubSeq(seq, i + 1, Len(seq))

\* showLoading
showLoading(d) ==
    [d EXCEPT !.emptyState = "none", !.resultsWrapper = "none",
              !.loadingState = "flex"]

\* showEmpty, and the display part of showError
showEmpty(d) ==
    [d EXCEPT !.loadingState = "none", !.resultsWrapper = "none",
              !.emptyState = "flex"]

\* the end of displayResults for a non-empty result
showTable(d) ==
    [d EXCEPT !.emptyState = "none", !.loadingState = "none",
              !.resultsWrapper = "block"]

\* Faulty variant of showError: the message is replaced by a fixed one
showError_Generic(message) == Toast("Error: Query failed", "error")

\* showError: the toast it shows
showError(message) == Toast("Error: " \o message, "error")

\* chart.destroy() on the chart state.currentChart refers to
Destroy(cs, c) == [cs EXCEPT ![c] = @ + 1]

\* hideChart, on the charts: destroys the current chart when there is one
hideChartCharts(cs, c) == IF c # 0 THEN Destroy(cs, c) ELSE cs

\* Faulty variant of updateChart: the current chart is not destroyed
updateChartCharts_NoDestroy(cs, c) == Append(cs, 0)

\* updateChart (app build), on the charts: destroys the current chart when
\* there is one, then createChart constructs the next
updateChartCharts(cs, c) == Append(IF c # 0 THEN Destroy(cs, c) ELSE cs, 0)

\* the charts constructed and not destroyed
LiveCharts == {c \in 1..Len(charts) : charts[c] = 0}

-----------------------------------------------------------------------------
(* Initial state: the page has loaded and read the two lists from storage.  *)
(* The browser profile is new, or holds what earlier sessions stored:       *)
(* 49 history entries (h49 the latest, h1 the oldest) and 50 favorites.     *)

ReturningHistory ==
    [i \in 1..(HistoryLimit - 1) |->
        HistoryEntry(OldText(HistoryLimit - i), "K1", 1, 0 - i)]

ReturningFavorites ==
    [i \in 1..HistoryLimit |->
        [id |-> 0 - i, query |-> OldText(HistoryLimit + 2 - i), kql |-> "",
         timestamp |-> ToISOString(0 - i)]]

Reverse(s) == [i \in 1..Len(s) |-> s[Len(s) + 1 - i]]

InitCommon ==
    /\ now = 0
    /\ lastResults = "null"
    /\ lastColumns = "null"
    /\ lastQuestion = "null"
    /\ lastKql = "null"
    /\ currentKql = "null"
    /\ currentResults = "null"
    /\ queryCount = 0
    /\ currentChart = 0
    /\ charts = <<>>
    /\ pending = <<>>
    /\ issued = 0
    /\ toggled = 0
    /\ display = [emptyState |-> "", loadingState |-> "", resultsWrapper |-> "",
                  chartContainer |-> "", vizContainer |-> "",
                  statsContainer |-> ""]
    /\ dataColumn = <<>>
    /\ columnOptions = <<>>
    /\ toasts = <<>>
    /\ event = Event("load", "", "", FALSE)
    /\ answered = [seq |-> 0, kind |-> "", text |-> "", data |-> ErrorBody("")]
    /\ selectedTimeRange = "24h"
    /\ customTimeStart = "null"
    /\ customTimeEnd = "null"
    /\ timeFilter = "undefined"
    /\ chatHistory = <<>>
    /\ chatRequests = <<>>
    /\ stats = [numericStats |-> <<>>, categoryStats |-> <<>>]
    /\ chartSpec = [chart |-> 0, labels |-> <<>>, values |-> <<>>,
                    labelColumn |-> <<>>, valueColumn |-> <<>>]
    /\ insightRequests = <<>>
    /\ insights = [panel |-> "hidden", of |-> 0]
    /\ chatView = [clock |-> 0, elements |-> <<>>, typing |-> <<>>, sent |-> 0,
                   overlapped |-> FALSE]

FreshProfile == [history |-> NoItem, favorites |-> NoItem]
ReturningProfile ==
    [history |-> Item(HistoryJson(ReturningHistory)),
     favorites |-> Item(FavoritesJson(ReturningFavorites))]

InitApp(profiles) ==
    /\ variant = "app"
    /\ storage \in profiles
    /\ queryHistory = loadHistoryFromStorage(storage.history)
    /\ favorites = loadFavoritesFromStorage(storage.favorites)
    /\ recordLog = Reverse(Texts(queryHistory))
    /\ startup = [phase |-> "done", history |-> "list", favorites |-> "list"]
    /\ InitCommon

\* a new browser profile
Init == InitApp({FreshProfile})

\* a new profile, or one earlier sessions have filled
InitAnyProfile == InitApp({FreshProfile, ReturningProfile})

\* the page before DOMContentLoaded, over any stored values
StoredHistories ==
    {NoItem, Item(<<>>), Item(HistoryJson(Slice(ReturningHistory, 2)))}
        \cup {OtherItem(f) : f \in OtherForms}
StoredFavoriteLists ==
    {NoItem, Item(<<>>), Item(FavoritesJson(Slice(ReturningFavorites, 2)))}
        \cup {OtherItem(f) : f \in OtherForms}

InitBoot ==
    /\ variant = "app"
    /\ storage \in [history : StoredHistories, favorites : StoredFavoriteLists]
    /\ queryHistory = <<>>
    /\ favorites = <<>>
    /\ recordLog = <<>>
    /\ startup = [phase |-> "pending", history |-> "list", favorites |-> "list"]
    /\ InitCommon

\* the visualization build keeps no history and reads no storage
InitViz ==
    /\ variant = "viz"
    /\ storage = FreshProfile
    /\ queryHistory = <<>>
    /\ favorites = <<>>
    /\ recordLog = <<>>
    /\ startup = [phase |-> "done", history |-> "list", favorites |-> "list"]
    /\ InitCommon

-----------------------------------------------------------------------------
(* Handlers of the app build (src/static/js/app.js) *)

\* the variables a query handler never writes
queryFrame == <<variant, favorites, toggled, dataColumn, columnOptions,
                startup, selectedTimeRange, customTimeStart, customTimeEnd,
                chatHistory, chatRequests, stats, chartSpec, chatView>>

\* executeNaturalQuery / executeKqlQuery up to `await fetch`: an empty input
\* only shows a toast; otherwise the loading state is shown and the request
\* goes out
SendQuery(kind, text, emptyHint) ==
    /\ Len(pending) < MaxPending
    /\ issued < MaxIssued
    /\ IF text = ""
       THEN /\ toasts' = <<Toast(emptyHint, "info")>>
            /\ UNCHANGED <<display, pending, issued, timeFilter>>
       ELSE /\ display' = showLoading(display)
            /\ timeFilter' =
                  IF kind = "natural" /\ variant = "app"
                  THEN getTimeRangeFilter(selectedTimeRange, customTimeStart,
                                          customTimeEnd, DateNow(now))
                  ELSE timeFilter
            /\ pending' = Append(pending, [kind |-> kind, text |-> text,
                                        seq |-> issued + 1])
            /\ issued' = issued + 1
            /\ toasts' = <<>>
    /\ event' = Event(kind \o "Sent", text, "", FALSE)
    /\ UNCHANGED <<now, storage, queryHistory, lastResults, lastColumns,
                   lastQuestion, lastKql, currentKql, currentResults,
                   queryCount, currentChart, charts, recordLog, answered,
                   insightRequests, insights>>
    /\ UNCHANGED queryFrame

ExecuteNaturalQuery(text) ==
    /\ variant = "app"
    /\ SendQuery("natural", text, "Please enter a question")

ExecuteKqlQuery(text) ==
    /\ variant = "app"
    /\ SendQuery("kql", text, "Please enter a KQL query")

\* `if (data.error) { showError(data.error); return; }` and the catch block:
\* the message a response is turned away with, "" when it is processed
FailureMessage(data) == IF data.failed THEN data.message ELSE data.error

\* showError(message) and return: nothing of the state is written
QueryFails(i, message) ==
    /\ display' = showEmpty(display)
    /\ toasts' = <<showError(message)>>
    /\ pending' = RemoveAt(pending, i)
    /\ event' = Event("queryError", pending[i].text, message, FALSE)
    /\ UNCHANGED <<now, storage, queryHistory, lastResults, lastColumns,
                   lastQuestion, lastKql, currentKql, currentResults,
                   queryCount, currentChart, charts, issued, recordLog,
                   answered, timeFilter, insightRequests, insights>>

\* Faulty variant of displayResults: the columns of an empty result are not
\* stored
DisplayResults_KeepColumns(table) ==
    /\ lastResults' = table
    /\ lastColumns' = IF Table(table).rows = <<>> THEN lastColumns ELSE table
    /\ charts' = hideChartCharts(charts, currentChart)
    /\ currentChart' = 0
    /\ display' = LET d == [display EXCEPT !.chartContainer = "none"]
                  IN  IF Table(table).rows = <<>> THEN showEmpty(d)
                      ELSE showTable(d)

\* displayResults(results, columns) of the app build: stores both, hides the
\* chart (hideChart), then shows the empty state or the table
DisplayResults(table) ==
    /\ lastResults' = table
    /\ lastColumns' = table
    /\ charts' = hideChartCharts(charts, currentChart)
    /\ currentChart' = 0
    /\ display' = LET d == [display EXCEPT !.chartContainer = "none"]
                  IN  IF Table(table).rows = <<>> THEN showEmpty(d)
                      ELSE showTable(d)

\* fetchAiInsights up to `await fetch`, called when a natural-language
\* query has rows: showAiInsightsLoading empties the text and shows the
\* loading state, and the request goes out with state.lastResults as it is
\* (the results of query number `query`)
fetchAiInsights(query) ==
    /\ insights' = [panel |-> "loading", of |-> 0]
    /\ insightRequests' = Append(insightRequests, [of |-> query])

\* what no insights handler writes
insightsFrame == <<variant, now, storage, queryHistory, favorites, toggled,
                   currentChart, charts, display, recordLog, answered,
                   lastResults, lastColumns, lastQuestion, lastKql,
                   currentKql, currentResults, queryCount, pending, issued,
                   dataColumn, columnOptions, startup, selectedTimeRange,
                   customTimeStart, customTimeEnd, timeFilter, chatHistory,
                   chatRequests, stats, chartSpec, chatView>>

\* fetchAiInsights after `await response.json()`: displayAiInsights puts the
\* text on the page, showAiInsightsError the error
InsightsResponse(i, ok) ==
    /\ variant = "app"
    /\ i \in 1..Len(insightRequests)
    /\ insights' = IF ok THEN [panel |-> "text", of |-> insightRequests[i].of]
                   ELSE [panel |-> "error", of |-> 0]
    /\ insightRequests' = RemoveAt(insightRequests, i)
    /\ toasts' = <<>>
    /\ event' = Event(IF ok THEN "insightsShown" ELSE "insightsFailed", "", "",
                      FALSE)
    /\ UNCHANGED insightsFrame

\* the refresh button of the insights panel: fetchAiInsights over the
\* results on display, or a toast when there are none
RefreshInsights ==
    /\ variant = "app"
    /\ Len(insightRequests) < MaxPending
    /\ IF NoRows(lastResults)
       THEN /\ toasts' = <<Toast("No results to analyze", "info")>>
            /\ UNCHANGED <<insightRequests, insights>>
       ELSE /\ fetchAiInsights(answered.seq)
            /\ toasts' = <<>>
    /\ event' = Event("insightsRefresh", "", "", FALSE)
    /\ UNCHANGED insightsFrame

\* closeAiInsights: the panel is hidden
CloseAiInsights ==
    /\ variant = "app"
    /\ insights' = [panel |-> "hidden", of |-> 0]
    /\ toasts' = <<>>
    /\ event' = Event("insightsClosed", "", "", FALSE)
    /\ UNCHANGED <<insightRequests>>
    /\ UNCHANGED insightsFrame

CompletedToast(data) ==
    Toast("Query completed: " \o ToString(data.row_count) \o " records found",
          "success")

\* executeNaturalQuery after `await response.json()`
NaturalQueryResponse(i, data, t, writeOk) ==
    /\ variant = "app"
    /\ pending[i].kind = "natural"
    /\ IF FailureMessage(data) # ""
       THEN QueryFails(i, FailureMessage(data))
       ELSE /\ lastQuestion' = pending[i].text
            /\ lastKql' = data.kql
            /\ currentKql' = data.kql
            /\ currentResults' = data.table
            /\ DisplayResults(data.table)
            /\ queryCount' = queryCount + 1
            /\ now' = t
            /\ queryHistory' = addToHistory(queryHistory, pending[i].text,
                                            data.kql, data.row_count, t)
            /\ storage' = saveHistoryToStorage(storage, queryHistory', writeOk)
            /\ recordLog' = Append(recordLog, pending[i].text)
            /\ toasts' = <<CompletedToast(data)>>
            /\ pending' = RemoveAt(pending, i)
            /\ event' = Event("naturalDone", pending[i].text, "", writeOk)
            /\ answered' = [seq |-> pending[i].seq, kind |-> "natural",
                            text |-> pending[i].text, data |-> data]
            /\ IF Table(data.table).rows # <<>>
               THEN fetchAiInsights(pending[i].seq)
               ELSE UNCHANGED <<insightRequests, insights>>
            /\ UNCHANGED <<issued, timeFilter>>
    /\ UNCHANGED queryFrame

\* executeKqlQuery after `await response.json()`
KqlQueryResponse(i, data) ==
    /\ variant = "app"
    /\ pending[i].kind = "kql"
    /\ IF FailureMessage(data) # ""
       THEN QueryFails(i, FailureMessage(data))
       ELSE /\ lastQuestion' = ""
            /\ lastKql' = pending[i].text
            /\ DisplayResults(data.table)
            /\ queryCount' = queryCount + 1
            /\ toasts' = <<CompletedToast(data)>>
            /\ pending' = RemoveAt(pending, i)
            /\ event' = Event("kqlDone", pending[i].text, "", FALSE)
            /\ answered' = [seq |-> pending[i].seq, kind |-> "kql",
                            text |-> pending[i].text, data |-> data]
            /\ IF Table(data.table).rows # <<>>
               THEN fetchAiInsights(pending[i].seq)
               ELSE UNCHANGED <<insightRequests, insights>>
            /\ UNCHANGED <<now, storage, queryHistory, currentKql,
                           currentResults, issued, recordLog, timeFilter>>
    /\ UNCHANGED queryFrame

\* renderHistory: reads state.queryHistory.length and maps over the list,
\* calling isFavorite (state.favorites.some) for every item; a TypeError when
\* the field read is not a list
renderHistoryThrows(historyKind, history, favoritesKind) ==
    \/ historyKind # "list"
    \/ history # <<>> /\ favoritesKind # "list"

\* renderFavorites: reads state.favorites.length and maps over the list
renderFavoritesThrows(favoritesKind) == favoritesKind # "list"

\* the DOMContentLoaded handler from setupHistoryAndFavorites on: load both
\* lists, render both; an exception ends the handler there
Startup ==
    /\ startup.phase = "pending"
    /\ queryHistory' = loadHistoryFromStorage(storage.history)
    /\ favorites' = loadFavoritesFromStorage(storage.favorites)
    /\ recordLog' = Reverse(Texts(queryHistory'))
    /\ LET historyKind == StoredKind(storage.history)
           favoritesKind == StoredKind(storage.favorites)
           threw == \/ renderHistoryThrows(historyKind, queryHistory',
                                           favoritesKind)
                    \/ renderFavoritesThrows(favoritesKind)
       IN  /\ startup' = [phase |-> IF threw THEN "threw" ELSE "done",
                          history |-> historyKind,
                          favorites |-> favoritesKind]
           /\ event' = Event(IF threw THEN "loadThrew" ELSE "load", "", "",
                             FALSE)
    /\ toasts' = <<>>
    /\ UNCHANGED <<variant, now, storage, toggled, currentChart, charts,
                   display, answered, lastResults, lastColumns, lastQuestion,
                   lastKql, currentKql, currentResults, queryCount, pending,
                   issued, dataColumn, columnOptions, selectedTimeRange,
                   customTimeStart, customTimeEnd, timeFilter, chatHistory,
                   chatRequests, stats, chartSpec, insightRequests, insights,
                   chatView>>

-----------------------------------------------------------------------------
(* Time range picker: the buttons *)

\* what no time range handler writes
timeFrame == <<variant, now, storage, queryHistory, favorites, toggled,
               currentChart, charts, display, recordLog, answered,
               lastResults, lastColumns, lastQuestion, lastKql, currentKql,
               currentResults, queryCount, pending, issued, dataColumn,
               columnOptions, startup, timeFilter, chatHistory, chatRequests,
               stats, chartSpec, insightRequests, insights, chatView>>

\* the data-range values of the .time-btn buttons: the presets the resolver
\* names, and the selection without a lookback ("all time")
TimeButtonRanges == {"1h", "6h", "24h", "7d", "30d", "all"}

\* a .time-btn button: state.selectedTimeRange = btn.dataset.range
TimeButton(range) ==
    /\ variant = "app"
    /\ selectedTimeRange' = range
    /\ toasts' = <<>>
    /\ event' = Event("timeButton", range, "", FALSE)
    /\ UNCHANGED <<customTimeStart, customTimeEnd>>
    /\ UNCHANGED timeFrame

\* the custom range button
CustomTimeButton ==
    /\ variant = "app"
    /\ selectedTimeRange' = "custom"
    /\ toasts' = <<>>
    /\ event' = Event("customTimeButton", "", "", FALSE)
    /\ UNCHANGED <<customTimeStart, customTimeEnd>>
    /\ UNCHANGED timeFrame

\* the apply button of the custom picker, with the values of the two inputs
ApplyCustomTime_SetsEach(start, end) ==
    /\ variant = "app"
    /\ customTimeStart' = IF Truthy(start) THEN start ELSE customTimeStart
    /\ customTimeEnd' = IF Truthy(end) THEN end ELSE customTimeEnd
    /\ toasts' = <<Toast("Custom time range applied", "success")>>
    /\ event' = Event("applyCustomTime", "", "", FALSE)
    /\ UNCHANGED selectedTimeRange
    /\ UNCHANGED timeFrame

ApplyCustomTime(start, end) ==
    /\ variant = "app"
    /\ IF Truthy(start) /\ Truthy(end)
       THEN /\ customTimeStart' = start
            /\ customTimeEnd' = end
            /\ toasts' = <<Toast("Custom time range applied", "success")>>
       ELSE /\ toasts' = <<Toast("Please select both start and end times",
                                 "warning")>>
            /\ UNCHANGED <<customTimeStart, customTimeEnd>>
    /\ event' = Event("applyCustomTime", "", "", FALSE)
    /\ UNCHANGED selectedTimeRange
    /\ UNCHANGED timeFrame

-----------------------------------------------------------------------------
(* AI chat *)

TypingIndicator == "<div class=\"typing-indicator\">"
WelcomeMessage == "Hello! I can help you analyze your Azure logs."
SorryMessage == "Sorry, I encountered an error. Please try again."

\* Array.prototype.slice(-n): the last n elements
LastN_FirstN(s, n) == SubSeq(s, 1, IF Len(s) < n THEN Len(s) ELSE n)

LastN(s, n) == SubSeq(s, IF Len(s) > n THEN Len(s) - n + 1 ELSE 1, Len(s))

\* addChatMessage, on state.chatHistory: a temporary message is shown only
addChatMessage_StoresTemp(history, role, content, isTemp) ==
    Append(history, [role |-> role, content |-> content])

addChatMessage_ApologyNotStored(history, role, content, isTemp) ==
    IF isTemp \/ content = SorryMessage THEN history
    ELSE Append(history, [role |-> role, content |-> content])

addChatMessage(history, role, content, isTemp) ==
    IF isTemp THEN history
    ELSE Append(history, [role |-> role, content |-> content])

\* the body sendChatMessage posts to /api/chat; results is left out of the
\* JSON when state.currentResults is null (hasResults = FALSE)
ChatBody(message, kql, results, history) ==
    LET held == results \notin {"null", "undefined"}
        rows == IF held THEN Table(results).rows ELSE <<>>
    IN  [message |-> message,
         kql |-> kql,
         hasResults |-> held,
         results |-> Slice(rows, ContextRows),
         resultCount |-> Len(rows),
         history |-> LastN(history, ChatWindow)]

\* addChatMessage on the page: a div with the id `msg-${Date.now()}` is
\* appended, `elapsed` milliseconds after the clock was last read; a typing
\* indicator carries the number of the send it belongs to (`request`, 0 for
\* the other elements)
appendChatElement(view, kind, request, elapsed) ==
    [view EXCEPT !.clock = @ + elapsed,
                 !.elements = Append(@, [id |-> view.clock + elapsed,
                                         kind |-> kind,
                                         request |-> request])]

\* removeChatMessage(msgId): document.getElementById(msgId)?.remove() takes
\* the first element of the page with that id, when there is one
removeChatMessage(view, msgId) ==
    IF \E k \in 1..Len(view.elements) : view.elements[k].id = msgId
    THEN [view EXCEPT !.elements =
             RemoveAt(@, CHOOSE k \in 1..Len(view.elements) :
                             /\ view.elements[k].id = msgId
                             /\ \A j \in 1..(k - 1) :
                                    view.elements[j].id # msgId)]
    ELSE view

\* what no chat handler writes
chatFrame == <<variant, now, storage, queryHistory, favorites, toggled,
               currentChart, charts, display, recordLog, answered,
               lastResults, lastColumns, lastQuestion, lastKql, currentKql,
               currentResults, queryCount, pending, issued, dataColumn,
               columnOptions, startup, selectedTimeRange, customTimeStart,
               customTimeEnd, timeFilter, stats, chartSpec, insightRequests,
               insights>>

\* openChatModal: the welcome message when the transcript is empty
OpenChatModal ==
    /\ variant = "app"
    /\ chatHistory' = IF chatHistory = <<>>
                      THEN addChatMessage(chatHistory, "assistant",
                                          WelcomeMessage, FALSE)
                      ELSE chatHistory
    /\ chatView' = IF chatHistory = <<>>
                   THEN appendChatElement(chatView, "assistant", 0, 1)
                   ELSE chatView
    /\ toasts' = <<>>
    /\ event' = Event("chatOpened", "", "", FALSE)
    /\ UNCHANGED chatRequests
    /\ UNCHANGED chatFrame

\* sendChatMessage up to the fetch: the user turn, the typing indicator
\* (`elapsed` milliseconds after the user turn, its id kept as typingId),
\* the request
SendChatMessage(message, elapsed) ==
    /\ variant = "app"
    /\ Len(chatRequests) < MaxChatPending
    /\ Len(chatHistory) + Len(chatRequests) + 2 <= MaxChatTurns
    /\ IF message = ""
       THEN UNCHANGED <<chatHistory, chatRequests, chatView>>
       ELSE /\ chatView' =
                  LET request == chatView.sent + 1
                      typed == appendChatElement(
                                   appendChatElement(chatView, "user", 0, 1),
                                   "typing", request, elapsed)
                  IN  [typed EXCEPT !.sent = request,
                                    !.typing = Append(@, [id |-> typed.clock,
                                                          request |-> request]),
                                    !.overlapped = @ \/ chatRequests # <<>>]
            /\ chatHistory' =
                  addChatMessage(addChatMessage(chatHistory, "user", message,
                                                FALSE),
                                 "assistant", TypingIndicator, TRUE)
            /\ chatRequests' =
                  Append(chatRequests,
                         ChatBody(message, currentKql, currentResults,
                                  chatHistory'))
    /\ toasts' = <<>>
    /\ event' = Event("chatSent", message, "", FALSE)
    /\ UNCHANGED chatFrame

\* sendChatMessage after the fetch: the typing indicator is taken off the
\* page, and the answer, or the apology when the request failed or the
\* answer has no response text, is added
ChatResponse(i, ok, response) ==
    /\ variant = "app"
    /\ i \in 1..Len(chatRequests)
    /\ chatView' =
          LET typingId == chatView.typing[i].id
              once == removeChatMessage(chatView, typingId)
              \* the catch block calls removeChatMessage(typingId) again when
              \* the exception came after the first call: `!response.ok`, or
              \* addChatMessage failing on a response without text
              cleared == IF (ok /\ response # "undefined") \/ response = "rejected"
                         THEN once
                         ELSE removeChatMessage(once, typingId)
          IN  [appendChatElement(cleared, "assistant", 0, 1)
                  EXCEPT !.typing = RemoveAt(@, i)]
    /\ chatHistory' =
          addChatMessage(chatHistory, "assistant",
                         IF ok /\ response # "undefined" THEN response
                         ELSE SorryMessage,
                         FALSE)
    /\ chatRequests' = RemoveAt(chatRequests, i)
    /\ toasts' = <<>>
    /\ event' = Event("chatAnswered", chatRequests[i].message, "", FALSE)
    /\ UNCHANGED chatFrame

\* the variables only the query handlers and the chart handlers write
resultFrame == <<lastResults, lastColumns, lastQuestion, lastKql, currentKql,
                 currentResults, queryCount, pending, issued, dataColumn,
                 columnOptions, startup, selectedTimeRange, customTimeStart,
                 customTimeEnd, timeFilter, chatHistory, chatRequests, stats,
                 chartSpec, insightRequests, insights, chatView>>

\* the clear-history button: confirm(), then empty, save, render
ClearHistory(confirmed, writeOk) ==
    /\ variant = "app"
    /\ IF confirmed
       THEN /\ queryHistory' = <<>>
            /\ storage' = saveHistoryToStorage(storage, queryHistory', writeOk)
            /\ recordLog' = <<>>
            /\ toasts' = <<Toast("History cleared", "success")>>
       ELSE /\ toasts' = <<>>
            /\ UNCHANGED <<queryHistory, storage, recordLog>>
    /\ event' = Event(IF confirmed THEN "historyCleared" ELSE "clearDeclined",
                      "", "", confirmed /\ writeOk)
    /\ UNCHANGED <<variant, now, favorites, toggled, currentChart, charts,
                   display, answered>>
    /\ UNCHANGED resultFrame

\* Faulty variant of the star button: removing a favorite also removes the
\* history entry of the same text
ToggleFavorite_DropsFromHistory(item, t, writeOk) ==
    /\ toggled < MaxToggles
    /\ toggled' = toggled + 1
    /\ now' = t
    /\ favorites' = toggleFavorite(favorites, item.query,
                                   IF item.kql = "undefined" THEN ""
                                   ELSE item.kql, t)
    /\ queryHistory' = IF HasQuery(favorites, item.query)
                       THEN FilterSeq(queryHistory, item.query)
                       ELSE queryHistory
    /\ storage' = saveFavoritesToStorage(storage, favorites', writeOk)
    /\ toasts' = <<IF HasQuery(favorites, item.query)
                   THEN Toast("Removed from favorites", "info")
                   ELSE Toast("Added to favorites", "success")>>
    /\ event' = Event("favoriteToggled", item.query, "", writeOk)
    /\ UNCHANGED <<variant, recordLog, currentChart, charts, display,
                   answered>>
    /\ UNCHANGED resultFrame

\* the star button of a history or favorites item:
\* toggleFavorite(item.query, item.kql || ''), save, render both lists
ToggleFavorite(item, t, writeOk) ==
    /\ toggled < MaxToggles
    /\ toggled' = toggled + 1
    /\ now' = t
    /\ favorites' = toggleFavorite(favorites, item.query,
                                   IF item.kql = "undefined" THEN ""
                                   ELSE item.kql, t)
    /\ storage' = saveFavoritesToStorage(storage, favorites', writeOk)
    /\ toasts' = <<IF isFavorite(favorites, item.query)
                   THEN Toast("Removed from favorites", "info")
                   ELSE Toast("Added to favorites", "success")>>
    /\ event' = Event("favoriteToggled", item.query, "", writeOk)
    /\ UNCHANGED <<variant, queryHistory, recordLog, currentChart, charts,
                   display, answered>>
    /\ UNCHANGED resultFrame

\* the list positions a click is tried at
Clicks(list) == {i \in {1, 2, Len(list)} : i \in 1..Len(list)}

StarHistoryItem(idx, t, writeOk) ==
    /\ variant = "app"
    /\ idx \in Clicks(queryHistory)
    /\ ToggleFavorite(queryHistory[idx], t, writeOk)

StarFavoriteItem(idx, t, writeOk) ==
    /\ variant = "app"
    /\ idx \in Clicks(favorites)
    /\ ToggleFavorite(favorites[idx], t, writeOk)

\* the variables no chart handler writes
chartFrame == <<variant, now, storage, queryHistory, favorites, toggled,
                recordLog, answered>>

\* updateChart: nothing without rows; else destroy the current chart and
\* construct the next one (createChart)
updateChart ==
    IF NoRows(lastResults)
    THEN UNCHANGED <<charts, currentChart>>
    ELSE /\ charts' = updateChartCharts(charts, currentChart)
         /\ currentChart' = Len(charts')

\* showChart
ShowChart ==
    /\ variant = "app"
    /\ Len(charts) < MaxCharts
    /\ IF NoRows(lastResults)
       THEN /\ toasts' = <<Toast("No data to visualize", "info")>>
            /\ UNCHANGED <<display, charts, currentChart>>
       ELSE /\ display' = [display EXCEPT !.chartContainer = "block"]
            /\ updateChart
            /\ toasts' = <<>>
    /\ event' = Event("showChart", "", "", FALSE)
    /\ UNCHANGED chartFrame
    /\ UNCHANGED resultFrame

\* the chart type selector changes: updateChart
UpdateChart ==
    /\ variant = "app"
    /\ Len(charts) < MaxCharts
    /\ updateChart
    /\ toasts' = <<>>
    /\ event' = Event("updateChart", "", "", FALSE)
    /\ UNCHANGED display
    /\ UNCHANGED chartFrame
    /\ UNCHANGED resultFrame

\* hideChart (the close button)
HideChart ==
    /\ variant = "app"
    /\ charts' = hideChartCharts(charts, currentChart)
    /\ currentChart' = 0
    /\ display' = [display EXCEPT !.chartContainer = "none"]
    /\ toasts' = <<>>
    /\ event' = Event("hideChart", "", "", FALSE)
    /\ UNCHANGED chartFrame
    /\ UNCHANGED resultFrame

\* toggleChartView: hideChart when the container is not hidden, else showChart
ToggleChartView ==
    /\ variant = "app"
    /\ Len(charts) < MaxCharts
    /\ IF display.chartContainer # "none"
       THEN /\ charts' = hideChartCharts(charts, currentChart)
            /\ currentChart' = 0
            /\ display' = [display EXCEPT !.chartContainer = "none"]
            /\ toasts' = <<>>
       ELSE IF NoRows(lastResults)
       THEN /\ toasts' = <<Toast("No data to visualize", "info")>>
            /\ UNCHANGED <<display, charts, currentChart>>
       ELSE /\ display' = [display EXCEPT !.chartContainer = "block"]
            /\ updateChart
            /\ toasts' = <<>>
    /\ event' = Event("toggleChartView", "", "", FALSE)
    /\ UNCHANGED chartFrame
    /\ UNCHANGED resultFrame

-----------------------------------------------------------------------------
(* Handlers of the visualization build (src/unnamed/part_000) *)

VizExecuteNaturalQuery(text) ==
    /\ variant = "viz"
    /\ SendQuery("natural", text, "Please enter a question")

VizExecuteKqlQuery(text) ==
    /\ variant = "viz"
    /\ SendQuery("kql", text, "Please enter a KQL query")

\* executeNaturalQuery / executeKqlQuery after `await response.json()`:
\* displayResults stores the rows and columns and then calls hideChart,
\* which this build does not define; the ReferenceError lands in the
\* handler's catch block, which calls showError(error.message)
VizQueryResponse(i, data) ==
    /\ variant = "viz"
    /\ IF FailureMessage(data) # ""
       THEN QueryFails(i, FailureMessage(data))
       ELSE /\ lastResults' = data.table
            /\ lastColumns' = data.table
            /\ display' = showEmpty(display)
            /\ toasts' = <<showError("hideChart is not defined")>>
            /\ pending' = RemoveAt(pending, i)
            /\ event' = Event("displayThrew", pending[i].text, "", FALSE)
            /\ answered' = [seq |-> pending[i].seq, kind |-> pending[i].kind,
                            text |-> pending[i].text, data |-> data]
            /\ UNCHANGED <<now, storage, queryHistory, lastQuestion, lastKql,
                           currentKql, currentResults, queryCount,
                           currentChart, charts, issued, recordLog,
                           timeFilter, insightRequests, insights>>
    /\ UNCHANGED queryFrame

\* the variables no visualization handler writes
vizFrame == <<variant, now, storage, queryHistory, favorites, toggled,
              recordLog, lastResults, lastColumns, lastQuestion, lastKql,
              currentKql, currentResults, queryCount, pending, issued,
              answered, startup, selectedTimeRange, customTimeStart,
              customTimeEnd, timeFilter, chatHistory, chatRequests,
              insightRequests, insights, chatView>>

\* renderChart's selectedColumn: elements.dataColumn?.value || findNumericColumn
SelectedColumn(selected, table) ==
    IF selected # <<>> THEN selected
    ELSE findNumericColumn(Table(table).rows, Table(table).columns)

\* analyzeDataForChart returns a chart description (not null)
Chartable(selected, table) ==
    ValueColumn(Table(table).rows, Table(table).columns,
                SelectedColumn(selected, table)) # <<>>

renderChartCharts_AlwaysBuilds(cs, c, chartable) ==
    Append(IF c # 0 THEN Destroy(cs, c) ELSE cs, 0)

\* renderChart, on the charts: destroys the current chart when there is one,
\* and constructs the next only when the data is chartable
renderChartCharts(cs, c, chartable) ==
    LET destroyed == IF c # 0 THEN Destroy(cs, c) ELSE cs
    IN  IF chartable THEN Append(destroyed, 0) ELSE destroyed

\* renderChart (state.currentChart is left as it was when nothing is built)
renderChart(selected) ==
    IF NoRows(lastResults) \/ lastColumns = "null"
    THEN /\ UNCHANGED <<charts, currentChart, chartSpec>>
         /\ toasts' = <<>>
    ELSE /\ charts' = renderChartCharts(charts, currentChart,
                                        Chartable(selected, lastResults))
         /\ currentChart' = IF Chartable(selected, lastResults)
                            THEN Len(charts') ELSE currentChart
         /\ toasts' = IF Chartable(selected, lastResults) THEN <<>>
                      ELSE <<Toast("Data not suitable for charting. Need numeric values.",
                                   "info")>>
         /\ chartSpec' =
               IF Chartable(selected, lastResults)
               THEN LET chartData ==
                            analyzeDataForChart(
                                Table(lastResults).rows,
                                Table(lastColumns).columns,
                                SelectedColumn(selected, lastResults))
                    IN  [chart |-> Len(charts'),
                         labels |-> Slice(chartData.labels, ChartRows),
                         values |-> Slice(chartData.values, ChartRows),
                         labelColumn |-> chartData.labelColumn,
                         valueColumn |-> chartData.valueColumn]
               ELSE chartSpec

\* renderChart can run: the model counts charts and destroy calls up to a bound
CanRender ==
    /\ Len(charts) < MaxCharts
    /\ currentChart # 0 => charts[currentChart] < MaxDestroys

\* hideVisualization
hideVisualization ==
    /\ charts' = hideChartCharts(charts, currentChart)
    /\ currentChart' = 0

\* handleVisualization(vizType): a chart kind goes to showVisualization,
\* 'trend' needs a time column, 'stats' and 'summary' show the statistics
\* container (showStatistics / showSummaryReport)
HandleVisualization(vizType) ==
    /\ variant = "viz"
    /\ CanRender
    /\ event' = Event("viz:" \o vizType, "", "", FALSE)
    /\ IF NoRows(lastResults)
       THEN /\ toasts' = <<Toast("No data available for visualization", "info")>>
            /\ UNCHANGED <<display, charts, currentChart, dataColumn,
                           columnOptions, stats, chartSpec>>
       ELSE IF vizType \in {"stats", "summary"}
       THEN /\ hideVisualization
            /\ display' = [display EXCEPT !.vizContainer = "none",
                                          !.resultsWrapper = "none",
                                          !.statsContainer = "flex"]
            /\ stats' = calculateStatistics(Table(lastResults).rows,
                                             Table(lastColumns).columns)
            /\ toasts' = <<>>
            /\ UNCHANGED <<dataColumn, columnOptions, chartSpec>>
       ELSE IF vizType = "trend"
               /\ ~\E k \in 1..Len(Table(lastColumns).columns) :
                      \/ includes(toLowerCase(Table(lastColumns).columns[k]),
                                  <<"t","i","m","e">>)
                      \/ includes(toLowerCase(Table(lastColumns).columns[k]),
                                  <<"d","a","t","e">>)
       THEN /\ toasts' = <<Toast("No timestamp column found for trend analysis",
                                 "info")>>
            /\ UNCHANGED <<display, charts, currentChart, dataColumn,
                           columnOptions, stats, chartSpec>>
       ELSE \* showVisualization
            /\ display' = [display EXCEPT !.statsContainer = "none",
                                          !.resultsWrapper = "none",
                                          !.vizContainer = "flex"]
            /\ columnOptions' = Table(lastColumns).columns
            /\ dataColumn' = findNumericColumn(Table(lastResults).rows,
                                               Table(lastColumns).columns)
            /\ renderChart(dataColumn')
            /\ UNCHANGED stats
    /\ UNCHANGED vizFrame

\* the chart type selector changes
ChartTypeChanged ==
    /\ variant = "viz"
    /\ CanRender
    /\ IF NoRows(lastResults)
       THEN UNCHANGED <<charts, currentChart, chartSpec>> /\ toasts' = <<>>
       ELSE renderChart(dataColumn)
    /\ event' = Event("chartType", "", "", FALSE)
    /\ UNCHANGED <<display, dataColumn, columnOptions, stats>>
    /\ UNCHANGED vizFrame

\* the data column selector changes to one of its options
DataColumnChanged(k) ==
    /\ variant = "viz"
    /\ CanRender
    /\ k \in 1..Len(columnOptions)
    /\ dataColumn' = columnOptions[k]
    /\ IF NoRows(lastResults)
       THEN UNCHANGED <<charts, currentChart, chartSpec>> /\ toasts' = <<>>
       ELSE renderChart(dataColumn')
    /\ event' = Event("dataColumn", "", "", FALSE)
    /\ UNCHANGED <<display, columnOptions, stats>>
    /\ UNCHANGED vizFrame

\* the close button of the chart: hideVisualization
HideVisualization ==
    /\ variant = "viz"
    /\ hideVisualization
    /\ display' = [display EXCEPT !.vizContainer = "none",
                                  !.resultsWrapper = "block"]
    /\ toasts' = <<>>
    /\ event' = Event("hideVisualization", "", "", FALSE)
    /\ UNCHANGED <<dataColumn, columnOptions, stats, chartSpec>>
    /\ UNCHANGED vizFrame

\* the close button of the statistics: hideStats
HideStats ==
    /\ variant = "viz"
    /\ display' = [display EXCEPT !.statsContainer = "none"]
    /\ toasts' = <<>>
    /\ event' = Event("hideStats", "", "", FALSE)
    /\ UNCHANGED <<charts, currentChart, dataColumn, columnOptions, stats,
                   chartSpec>>
    /\ UNCHANGED vizFrame

-----------------------------------------------------------------------------
(* Specifications.  Every one runs the handlers above; they differ in the   *)
(* profile the page starts from and in the inputs the user and the          *)
(* services supply.                                                         *)

\* the instants Date.now() can return next
Times == now..MaxNow

\* two answers of the query service: rows with a translated query, and no
\* rows and no translated query
StoreResponses == {ResultBody("K1", "levels"), ResultBody("undefined", "empty")}

\* one answer per result set
TableResponses == {ResultBody("K1", t) : t \in TableNames}

(* The history and favorites store of a new profile: questions are asked    *)
(* one at a time and answered, the history is cleared, stars are clicked;   *)
(* any write to localStorage may fail.                                      *)
Next ==
    \/ \E text \in {"errors", "logins"} :
          pending = <<>> /\ ExecuteNaturalQuery(text)
    \/ \E data \in StoreResponses, t \in Times, writeOk \in BOOLEAN :
          pending # <<>> /\ NaturalQueryResponse(1, data, t, writeOk)
    \/ \E confirmed \in BOOLEAN, writeOk \in BOOLEAN :
          ClearHistory(confirmed, writeOk)
    \/ \E idx \in 1..2, t \in Times, writeOk \in BOOLEAN :
          StarHistoryItem(idx, t, writeOk)
    \/ \E idx \in 1..2, t \in Times, writeOk \in BOOLEAN :
          StarFavoriteItem(idx, t, writeOk)

Spec == Init /\ [][Next]_vars

(* The history list alone, from a new profile and from a filled one.        *)
NextHistory ==
    \/ \E text \in InputTexts : pending = <<>> /\ ExecuteNaturalQuery(text)
    \/ \E data \in StoreResponses, t \in Times :
          pending # <<>> /\ NaturalQueryResponse(1, data, t, TRUE)
    \/ \E confirmed \in BOOLEAN : ClearHistory(confirmed, TRUE)

SpecHistory == InitAnyProfile /\ [][NextHistory]_vars

(* The favorites list, from a new profile and from a filled one.            *)
NextFavorites ==
    \/ pending = <<>> /\ ExecuteNaturalQuery("errors")
    \/ pending # <<>>
          /\ NaturalQueryResponse(1, ResultBody("undefined", "levels"), now, TRUE)
    \/ \E idx \in 1..(HistoryLimit + 1), t \in Times :
          StarHistoryItem(idx, t, TRUE)
    \/ \E idx \in 1..(HistoryLimit + 1), t \in Times :
          StarFavoriteItem(idx, t, TRUE)

SpecFavorites == InitAnyProfile /\ [][NextFavorites]_vars

(* Queries of both kinds, overlapping, answered in any order with results,  *)
(* an error field or a failed request.                                      *)
NextQuery ==
    \/ \E text \in {"errors", "logins", ""} : ExecuteNaturalQuery(text)
    \/ \E text \in {"errors", "logins", ""} : ExecuteKqlQuery(text)
    \/ \E i \in 1..Len(pending), data \in Responses, t \in Times :
          NaturalQueryResponse(i, data, t, TRUE)
    \/ \E i \in 1..Len(pending), data \in KqlResponses :
          KqlQueryResponse(i, data)
    \/ StarHistoryItem(1, now, TRUE)

SpecQuery == Init /\ [][NextQuery]_vars

(* Startup over any stored values, and the store after a startup that went  *)
(* through.                                                                 *)
NextLoad ==
    \/ Startup
    \/ startup.phase = "done" /\ pending = <<>> /\ ExecuteNaturalQuery("errors")
    \/ startup.phase = "done" /\ pending # <<>>
          /\ NaturalQueryResponse(1, ResultBody("K1", "levels"), now, TRUE)
    \/ startup.phase = "done" /\ ClearHistory(TRUE, TRUE)
    \/ startup.phase = "done" /\ StarHistoryItem(1, now, TRUE)

SpecLoad == InitBoot /\ [][NextLoad]_vars

(* The time range picker, and the filter sent with each question.           *)
CustomInputs == {"", "2024-01-01T00:00", "2024-01-02T00:00"}

NextTime ==
    \/ \E range \in TimeButtonRanges : TimeButton(range)
    \/ CustomTimeButton
    \/ \E start \in CustomInputs, end \in CustomInputs :
          ApplyCustomTime(start, end)
    \/ pending = <<>> /\ ExecuteNaturalQuery("errors")
    \/ \E t \in Times :
          pending # <<>>
              /\ NaturalQueryResponse(1, ResultBody("K1", "levels"), t, TRUE)

SpecTime == Init /\ [][NextTime]_vars

(* The statistics of each result set, shown as statistics or as the report; *)
(* the first question is answered with any result set, later ones with the  *)
(* named ones.                                                              *)
CraftedTables == {"levels", "notes", "repeat", "codes", "wide"}
StatsTables == CraftedTables \cup GenNames

NextStats ==
    \/ pending = <<>> /\ VizExecuteNaturalQuery("errors")
    \/ \E table \in (IF issued = 1 THEN StatsTables ELSE CraftedTables) :
          pending # <<>> /\ VizQueryResponse(1, ResultBody("K1", table))
    \/ \E vizType \in {"stats", "summary"} : HandleVisualization(vizType)
    \/ HideStats

SpecStats == InitViz /\ [][NextStats]_vars

(* The chart of the visualization build over result sets of every shape:    *)
(* shown, its kind and its data column changed, closed.                     *)
RenderTables == {"long", "digits", "dated"}

NextRender ==
    \/ pending = <<>> /\ VizExecuteNaturalQuery("errors")
    \/ \E table \in RenderTables :
          pending # <<>> /\ VizQueryResponse(1, ResultBody("K1", table))
    \/ HandleVisualization("bar")
    \/ ChartTypeChanged
    \/ \E k \in 1..3 : DataColumnChanged(k)
    \/ HideVisualization

SpecRender == InitViz /\ [][NextRender]_vars

(* The insights panel of the app build: queries of both kinds overlap, each  *)
(* result with rows asks for its insights, and the answers arrive in any     *)
(* order.                                                                    *)
InsightTables == {"levels", "notes", "empty"}

NextInsights ==
    \/ ExecuteNaturalQuery("errors")
    \/ ExecuteKqlQuery("logins")
    \/ \E i \in 1..Len(pending), table \in InsightTables :
          NaturalQueryResponse(i, ResultBody("K1", table), now, TRUE)
    \/ \E i \in 1..Len(pending), table \in InsightTables :
          KqlQueryResponse(i, ResultBody("undefined", table))
    \/ \E i \in 1..Len(insightRequests), ok \in BOOLEAN :
          InsightsResponse(i, ok)
    \/ RefreshInsights
    \/ CloseAiInsights

SpecInsights == Init /\ [][NextInsights]_vars

(* The chat next to queries of both kinds, with result sets of two and of   *)
(* more than twenty rows.                                                   *)
ChatTables == {"levels", "many"}

NextChat ==
    \/ pending = <<>> /\ chatRequests = <<>> /\ ExecuteNaturalQuery("errors")
    \/ \E table \in ChatTables :
          pending # <<>> /\ NaturalQueryResponse(1, ResultBody("K1", table),
                                                 now, TRUE)
    \/ pending = <<>> /\ chatRequests = <<>> /\ ExecuteKqlQuery("K2")
    \/ pending # <<>> /\ KqlQueryResponse(1, ResultBody("undefined", "levels"))
    \/ pending = <<>> /\ chatRequests = <<>> /\ OpenChatModal
    \/ \E message \in {"", "m1"} :
          pending = <<>> /\ SendChatMessage(message, 1)
    \/ \E i \in 1..MaxChatPending, answer \in {"r1", "undefined", "failed"} :
          ChatResponse(i, answer # "failed", answer)

SpecChat == Init /\ [][NextChat]_vars

(* The chat alone: messages are sent, one after the other or overlapping,   *)
(* the typing indicator created in the same millisecond as the user's       *)
(* message or in the next; every request is answered, fails or is rejected.  *)
MaxSends == 2        \* chat messages sent in one session
ChatAnswers == {"r1", "undefined", "failed", "rejected"}

\* the request of send number r settles and the rest of sendChatMessage runs
ChatAnswer(r) ==
    \E i \in 1..Len(chatRequests), answer \in ChatAnswers :
        /\ chatView.typing[i].request = r
        /\ ChatResponse(i, answer \notin {"failed", "rejected"}, answer)

NextTalk ==
    \/ OpenChatModal
    \/ \E message \in {"", "m1"}, elapsed \in {0, 1} :
          chatView.sent < MaxSends /\ SendChatMessage(message, elapsed)
    \/ \E r \in 1..MaxSends : ChatAnswer(r)

\* a fetch settles, and the continuation of the handler that awaits it runs
SpecTalk ==
    /\ Init
    /\ [][NextTalk]_vars
    /\ \A r \in 1..MaxSends : WF_vars(ChatAnswer(r))

(* The chart of either build: results of every kind arrive, the chart is    *)
(* shown, changed and closed.                                               *)
NextChart ==
    \/ pending = <<>> /\ ExecuteNaturalQuery("errors")
    \/ \E data \in TableResponses :
          pending # <<>> /\ NaturalQueryResponse(1, data, now, TRUE)
    \/ ShowChart
    \/ UpdateChart
    \/ HideChart
    \/ ToggleChartView
    \/ pending = <<>> /\ VizExecuteNaturalQuery("errors")
    \/ \E data \in TableResponses : pending # <<>> /\ VizQueryResponse(1, data)
    \/ \E vizType \in {"bar", "trend", "summary", "stats"} :
          HandleVisualization(vizType)
    \/ ChartTypeChanged
    \/ \E k \in 1..2 : DataColumnChanged(k)
    \/ HideVisualization
    \/ HideStats

SpecChart == (Init \/ InitViz) /\ [][NextChart]_vars

(* The views of the visualization build: results arrive, the chart, the     *)
(* statistics and the summary are shown, and each is closed with the close  *)
(* button it carries, which can be clicked while its container is shown.    *)
NextViews ==
    \/ pending = <<>> /\ VizExecuteNaturalQuery("errors")
    \/ \E table \in {"levels", "notes", "empty"} :
          pending # <<>> /\ VizQueryResponse(1, ResultBody("K1", table))
    \/ \E vizType \in {"bar", "trend", "summary", "stats"} :
          HandleVisualization(vizType)
    \/ display.vizContainer = "flex" /\ ChartTypeChanged
    \/ display.vizContainer = "flex" /\ HideVisualization
    \/ display.statsContainer = "flex" /\ HideStats

SpecViews == InitViz /\ [][NextViews]_vars

-----------------------------------------------------------------------------
(* Properties of the history list (SpecHistory)                             *)

\* the step of addToHistory: a completed question is handed to the history
Recorded ==
    /\ event'.op = "naturalDone"
    /\ recordLog' = Append(recordLog, event'.query)

\* the position of the entry with text q in list s, 0 when there is none
PositionOf(s, q) ==
    IF HasQuery(s, q) THEN CHOOSE i \in 1..Len(s) : s[i].query = q ELSE 0

\* some text has been recorded more than once since the list was last empty
RecordedAgain ==
    \E i, j \in 1..Len(recordLog) : i < j /\ recordLog[i] = recordLog[j]

\* C1: the history list never holds two entries with the same query text.
C1_NoDuplicateTexts ==
    \A i, j \in 1..Len(queryHistory) :
        i # j => queryHistory[i].query # queryHistory[j].query

\* a text already in the list has just been recorded again, next to others
C1_Witness ==
    /\ event.op = "naturalDone"
    /\ RecordedAgain
    /\ Len(queryHistory) >= 2

\* the distinct texts of a log of records, the most recently recorded first
RECURSIVE MostRecentDistinct(_)
MostRecentDistinct(log) ==
    IF log = <<>> THEN <<>>
    ELSE LET last == log[Len(log)]
             rest == MostRecentDistinct(SubSeq(log, 1, Len(log) - 1))
         IN  <<last>> \o SelectSeq(rest, LAMBDA x : x # last)

\* at most 50 entries, and they are the most recently recorded distinct texts
HistoryIsMostRecent ==
    /\ Len(queryHistory) <= HistoryLimit
    /\ Texts(queryHistory) = Slice(MostRecentDistinct(recordLog), HistoryLimit)

\* recording a new text into a full list drops the entry at the end, the one
\* recorded longest ago, and nothing else
FullListDropsOldest ==
    (/\ Recorded
     /\ Len(queryHistory) = HistoryLimit
     /\ ~HasQuery(queryHistory, event'.query))
    => /\ Len(queryHistory') = HistoryLimit
       /\ queryHistory'[1].query = event'.query
       /\ Tail(queryHistory') = SubSeq(queryHistory, 1, HistoryLimit - 1)
       /\ \A i \in 1..(HistoryLimit - 1) :
              queryHistory[i].id >= queryHistory[HistoryLimit].id

\* C2: the history list holds at most 50 entries, the most recently recorded
\* distinct texts; recording a 51st distinct text drops the oldest entry.
C2_HistoryCap == []HistoryIsMostRecent /\ [][FullListDropsOldest]_vars

\* the list was full, a text not in it has been recorded, and the oldest
\* text h1 is gone
C2_Witness ==
    /\ event.op = "naturalDone"
    /\ Len(queryHistory) = HistoryLimit
    /\ Len(recordLog) > HistoryLimit
    /\ ~RecordedAgain
    /\ ~HasQuery(queryHistory, OldText(1))

\* recording a text the list holds: the length stays, the new entry is at
\* the front with the time and result count of this record, and the other
\* entries are the same ones in the same order
RerecordMovesToFront ==
    (Recorded /\ HasQuery(queryHistory, event'.query))
    => LET q == event'.query
           old == queryHistory[PositionOf(queryHistory, q)]
       IN  /\ Len(queryHistory') = Len(queryHistory)
           /\ queryHistory'[1].query = q
           /\ queryHistory'[1].timestamp = ToISOString(now')
           /\ queryHistory'[1].id >= old.id
           /\ queryHistory'[1].resultCount = answered'.data.row_count
           /\ \A i \in 1..Len(queryHistory) :
                  queryHistory[i].query # q
                  => queryHistory[i] \in {queryHistory'[k] :
                                             k \in 2..Len(queryHistory')}
           /\ \A i, j \in 1..Len(queryHistory) :
                  (/\ i < j
                   /\ queryHistory[i].query # q
                   /\ queryHistory[j].query # q)
                  => PositionOf(queryHistory', queryHistory[i].query)
                       < PositionOf(queryHistory', queryHistory[j].query)

\* C3: recording a text that is already in the history leaves the length
\* unchanged, puts the new entry (later timestamp, new result count) at
\* index 0 and keeps the relative order of all other entries.
C3_RerecordKeepsOrder == [][RerecordMovesToFront]_vars

\* a text of the filled list has been recorded again with a different result
\* count, and it was not at the front before
C3_Witness ==
    /\ event.op = "naturalDone"
    /\ RecordedAgain
    /\ Len(queryHistory) >= 3
    /\ queryHistory[1].query = OldText(1)
    /\ queryHistory[1].resultCount # 1

-----------------------------------------------------------------------------
(* Properties of the query handlers (SpecQuery)                             *)

\* C4: every query that completes successfully, asked as a question or run
\* as a direct query, is recorded: once it has completed, an entry for its
\* text is at the front of the history.
C4_EveryCompletedQueryRecorded ==
    event.op \in {"naturalDone", "kqlDone"}
    => /\ queryHistory # <<>>
       /\ queryHistory[1].query = event.query

\* the step that handles a response carrying an error field, or a request
\* that failed
QueryFailed ==
    /\ event'.op = "queryError"
    /\ Len(pending') < Len(pending)

ErrorLeavesStateAlone ==
    QueryFailed
    => /\ UNCHANGED <<lastResults, lastColumns, queryHistory, favorites,
                      queryCount>>
       /\ event'.msg \in UpstreamErrors \cup FetchFailures
       /\ toasts' = <<Toast("Error: " \o event'.msg, "error")>>
       /\ issued' = issued
       /\ Len(pending') = Len(pending) - 1

\* C5: when a response carries an error field or the request fails, the
\* results, the columns, the history, the favorites and the query count stay
\* as they were, the upstream message is shown once, and no request is sent
\* again.
C5_ErrorLeavesStateAlone == [][ErrorLeavesStateAlone]_vars

\* a query has failed after results were shown, recorded and starred
C5_Witness ==
    /\ event.op = "queryError"
    /\ event.msg \in UpstreamErrors
    /\ lastResults = "levels"
    /\ queryHistory # <<>>
    /\ favorites # <<>>
    /\ queryCount > 0

\* C6: when requests overlap the response handled last wins: the results,
\* the columns and the query text kept all come from the successful response
\* that was handled last, never from two responses, in whatever order the
\* requests were sent.
C6_LastResponseWins ==
    answered.seq # 0
    => /\ lastResults = answered.data.table
       /\ lastColumns = answered.data.table
       /\ lastKql = IF answered.kind = "natural" THEN answered.data.kql
                    ELSE answered.text

\* two requests overlapped, both were answered with results, and the one
\* sent first was answered last, with a result set without rows
C6_Witness ==
    /\ pending = <<>>
    /\ issued = 2
    /\ queryCount = 2
    /\ answered.seq = 1
    /\ answered.data.table = "empty"

-----------------------------------------------------------------------------
(* Property of the chart (SpecChart)                                        *)

\* C7: at most one chart that has not been destroyed exists at any time:
\* whenever a chart is constructed, every chart constructed before it has
\* been destroyed.
C7_OneLiveChart ==
    /\ Cardinality(LiveCharts) <= 1
    /\ \A c \in 1..(Len(charts) - 1) : charts[c] >= 1

\* a chart has been constructed in place of an earlier one and is live
C7_Witness ==
    /\ Len(charts) >= 2
    /\ currentChart = Len(charts)
    /\ charts[currentChart] = 0

-----------------------------------------------------------------------------
(* Properties of the favorites list (SpecFavorites, Spec)                   *)

\* the step of a star button
Toggled ==
    /\ event'.op = "favoriteToggled"
    /\ toggled' = toggled + 1

TextSet(s) == {s[i].query : i \in 1..Len(s)}

\* no two favorites share a text, and toggling any text twice in a row gives
\* back the set of favorited texts
FavoritesKeyedByText ==
    /\ \A i, j \in 1..Len(favorites) :
           i # j => favorites[i].query # favorites[j].query
    /\ \A q \in InputTexts \cup {OldText(2), event.query}, t \in Times :
           TextSet(toggleFavorite(toggleFavorite(favorites, q, "", now),
                                  q, "", t))
               = TextSet(favorites)

\* a toggle removes the entry of the text and nothing else, or puts a new
\* entry with the current time in front of all the others, however many
ToggleAddsOrRemoves ==
    Toggled
    => LET q == event'.query
       IN  IF q \in TextSet(favorites)
           THEN /\ q \notin TextSet(favorites')
                /\ Len(favorites') = Len(favorites) - 1
                /\ \A i \in 1..Len(favorites') :
                       favorites'[i]
                           = favorites[IF i < PositionOf(favorites, q)
                                       THEN i ELSE i + 1]
           ELSE /\ favorites'[1].query = q
                /\ favorites'[1].id = now'
                /\ favorites'[1].timestamp = ToISOString(now')
                /\ Tail(favorites') = favorites

\* C8: toggleFavorite removes the entry of the text when there is one and
\* otherwise adds one at the front with the current time; the list never
\* holds a text twice, two toggles of a text in a row restore the set of
\* favorited texts, and the list is not cut at 50.
C8_TogglePureAddRemove ==
    []FavoritesKeyedByText /\ [][ToggleAddsOrRemoves]_vars

\* a 51st favorite has been added
C8_Witness ==
    /\ event.op = "favoriteToggled"
    /\ Len(favorites) = HistoryLimit + 1
    /\ favorites[1].query = event.query

\* C9: toggling a favorite leaves the history as it is: no entry is added,
\* removed or moved, and no result count or timestamp changes.
C9_ToggleKeepsHistory == [][Toggled => queryHistory' = queryHistory]_vars

\* a favorite whose text is in the history has been added and removed again
C9_Witness ==
    /\ event.op = "favoriteToggled"
    /\ toggled = 2
    /\ Len(queryHistory) >= 2
    /\ event.query \in TextSet(queryHistory)
    /\ event.query \notin TextSet(favorites)

-----------------------------------------------------------------------------
(* Property of the stored lists (Spec)                                      *)

HistoryStored ==
    /\ storage.history.present
    /\ storage.history.json = HistoryJson(queryHistory)
    /\ loadHistoryFromStorage(storage.history) = queryHistory

FavoritesStored ==
    /\ storage.favorites.present
    /\ storage.favorites.json = FavoritesJson(favorites)
    /\ loadFavoritesFromStorage(storage.favorites) = favorites

\* C10: after a record, a clear or a toggle whose write to the store went
\* through, the value stored under the key of the list is the serialization
\* of the list in memory, and loading it gives exactly that list.
C10_StoredIsCurrent ==
    /\ (event.op \in {"naturalDone", "historyCleared"} /\ event.stored)
           => HistoryStored
    /\ (event.op = "favoriteToggled" /\ event.stored) => FavoritesStored

\* the last favorite has been removed and written, next to a stored history
\* with an entry that has no translated query
C10_Witness ==
    /\ event.op = "favoriteToggled"
    /\ event.stored
    /\ favorites = <<>>
    /\ storage.favorites.present
    /\ HistoryStored
    /\ \E i \in 1..Len(queryHistory) : queryHistory[i].kql = "undefined"

-----------------------------------------------------------------------------
(* Property of startup (SpecLoad)                                           *)

\* C11: whatever is stored under the history and the favorites key (nothing,
\* a text that does not parse, or the JSON of something that is not a list),
\* startup leaves each list in memory a list, empty when the stored value is
\* absent or malformed, and neither loading nor the first render throws.
C11_LoadTolerates ==
    (startup.phase # "pending" /\ event.op \in {"load", "loadThrew"})
    => /\ startup.phase = "done"
       /\ startup.history = "list"
       /\ startup.favorites = "list"
       /\ (~storage.history.present \/ storage.history.form # "list")
              => queryHistory = <<>>
       /\ (~storage.favorites.present \/ storage.favorites.form # "list")
              => favorites = <<>>

-----------------------------------------------------------------------------
(* Properties of the chat (SpecChat)                                        *)

\* the step of sendChatMessage that posts a request
ChatSent ==
    /\ event'.op = "chatSent"
    /\ Len(chatRequests') = Len(chatRequests) + 1

\* C12: after any sequence of successful questions and direct queries, the
\* rows and the query text sent as chat context are those of the most recent
\* result set: state.currentResults and state.currentKql agree with
\* state.lastResults and state.lastKql.
C12_ChatContextIsCurrent ==
    (answered.seq # 0 /\ event.op = "chatSent" /\ chatRequests # <<>>)
    => LET body == chatRequests[Len(chatRequests)]
       IN  /\ currentResults = lastResults
           /\ currentKql = lastKql
           /\ body.kql = lastKql
           /\ body.hasResults
           /\ body.results = Slice(Table(lastResults).rows, ContextRows)

Min(a, b) == IF a < b THEN a ELSE b

\* the request posted carries the first rows of state.currentResults, at
\* most 20, with the number of all rows, and the last turns of the
\* transcript as it is at that moment, at most 10
ChatWindowSent ==
    ChatSent
    => LET body == chatRequests'[Len(chatRequests')]
           rows == IF currentResults' \in {"null", "undefined"} THEN <<>>
                   ELSE Table(currentResults').rows
           turns == Len(chatHistory')
       IN  /\ Len(body.results) = Min(ContextRows, Len(rows))
           /\ \A k \in 1..Len(body.results) : body.results[k] = rows[k]
           /\ body.resultCount = Len(rows)
           /\ Len(body.history) = Min(ChatWindow, turns)
           /\ \A k \in 1..Len(body.history) :
                  body.history[k]
                      = chatHistory'[turns - Len(body.history) + k]
           /\ body.history[Len(body.history)]
                  = [role |-> "user", content |-> body.message]

\* C13: every assistant request carries at most 20 result rows, the first
\* rows of the current result set in their order, with the full result
\* count, and at most 10 chat turns, the most recent ones in order; the
\* window is taken from the state at every send.
C13_ChatWindow == [][ChatWindowSent]_vars

\* a request has been posted over more than 20 rows and more than 10 turns
C13_Witness ==
    /\ event.op = "chatSent"
    /\ chatRequests # <<>>
    /\ Len(chatHistory) > ChatWindow
    /\ currentResults = "many"
    /\ chatRequests[Len(chatRequests)].resultCount > ContextRows

IsPrefix(s, t) == Len(s) <= Len(t) /\ SubSeq(t, 1, Len(s)) = s

\* C14: state.chatHistory is append-only: no stored turn is removed, moved
\* or changed by any chat action, and the typing indicator is never stored.
C14_ChatAppendOnly ==
    /\ [][IsPrefix(chatHistory, chatHistory')]_vars
    /\ [](\A k \in 1..Len(chatHistory) :
              chatHistory[k].content # TypingIndicator)

\* an answer has arrived after the typing indicator was shown, while another
\* request is still waiting
C14_Witness ==
    /\ event.op = "chatAnswered"
    /\ chatRequests # <<>>
    /\ Len(chatHistory) >= 4
    /\ chatHistory[Len(chatHistory)].role = "assistant"

-----------------------------------------------------------------------------
(* Properties of the time range resolver (SpecTime)                         *)

\* a question has just been sent with a time filter
FilterSent == event.op = "naturalSent" /\ pending # <<>>

Presets == {"1h", "6h", "24h", "7d", "30d"}

\* the fixed lookback of a preset, in seconds
Lookback(range) ==
    CASE range = "1h" -> 3600
      [] range = "6h" -> 21600
      [] range = "24h" -> 86400
      [] range = "7d" -> 604800
      [] range = "30d" -> 2592000

SinceClause(iso) == "| where TimeGenerated >= datetime('" \o iso \o "')"

\* C15: for each preset 1h, 6h, 24h, 7d and 30d the resolver returns the
\* clause 'timestamp >= now - duration' with the duration of the preset; for
\* 6h at 2024-01-01T12:00:00Z the clause names 2024-01-01T06:00:00Z.
C15_PresetLookback ==
    /\ (FilterSent /\ selectedTimeRange \in Presets)
           => timeFilter
                = SinceClause(DateISOString(DateNow(now)
                                              - Lookback(selectedTimeRange)))
    /\ (FilterSent /\ selectedTimeRange = "6h" /\ now = 0)
           => timeFilter = SinceClause("2024-01-01T06:00:00.000Z")
    /\ (FilterSent /\ selectedTimeRange = "30d" /\ now = 0)
           => timeFilter = SinceClause("2023-12-02T12:00:00.000Z")
    /\ (FilterSent /\ selectedTimeRange = "24h" /\ now = 1)
           => timeFilter = SinceClause("2024-02-29T13:01:01.000Z")
    /\ \A range \in Presets, tick \in 0..MaxNow :
           getTimeRangeFilter(range, customTimeStart, customTimeEnd,
                              DateNow(tick))
               = SinceClause(DateISOString(DateNow(tick) - Lookback(range)))

\* a question was sent at 2024-01-01T12:00:00Z with the 6h preset selected
C15_Witness ==
    /\ FilterSent
    /\ selectedTimeRange = "6h"
    /\ now = 0
    /\ customTimeStart # "null"

\* C16: with the custom range selected the resolver returns a between-clause
\* over exactly the stored start and end, in the order stored, when both are
\* stored, and the clause of the 24h preset otherwise; start and end are
\* only set together, so both are set or both are unset in every state.
C16_CustomRange ==
    /\ (customTimeStart = "null") <=> (customTimeEnd = "null")
    /\ Truthy(customTimeStart) <=> Truthy(customTimeEnd)
    /\ (FilterSent /\ selectedTimeRange = "custom")
           => timeFilter
                = IF customTimeStart # "null" /\ customTimeEnd # "null"
                  THEN "| where TimeGenerated between (datetime('"
                           \o customTimeStart \o "') .. datetime('"
                           \o customTimeEnd \o "'))"
                  ELSE getTimeRangeFilter("24h", "null", "null", DateNow(now))

\* a question was sent with a custom range whose end is before its start
C16_Witness ==
    /\ FilterSent
    /\ selectedTimeRange = "custom"
    /\ customTimeStart = "2024-01-02T00:00"
    /\ customTimeEnd = "2024-01-01T00:00"

\* C17 as stated: the resolver returns the empty string for the 'all time'
\* selection and a non-empty clause for every other selection.
C17_AllTimeIsEmpty ==
    FilterSent => (timeFilter = "" <=> selectedTimeRange = "all")

\* C17, amended: the resolver returns a non-empty clause for every selection
\* and never the empty string; a selection that is neither a preset nor the
\* custom range, 'all time' included, gets the clause of the 24h preset.
C17_AlwaysFilters ==
    /\ FilterSent => timeFilter # ""
    /\ (FilterSent /\ selectedTimeRange \notin Presets \cup {"custom"})
           => timeFilter
                = SinceClause(DateISOString(DateNow(now) - Lookback("24h")))

\* a question was sent with the 'all time' button selected
C17_Witness ==
    /\ FilterSent
    /\ selectedTimeRange = "all"

-----------------------------------------------------------------------------
(* Properties of the statistics (SpecStats)                                 *)

\* the statistics have just been computed over the rows on display
StatsShown == event.op \in {"viz:stats", "viz:summary"} /\ ~NoRows(lastResults)

ShownRows == Table(lastResults).rows
ShownColumns == Table(lastColumns).columns

\* the rows whose value in a column is neither null nor undefined
NonNullRows(col) ==
    {i \in 1..Len(ShownRows) :
        Cell(ShownRows[i], col).t \notin {"null", "undefined"}}

\* the number a value of a column parses to
Parsed(i, col) == parseFloat(Cell(ShownRows[i], col))

RECURSIVE SumOfRows(_, _)
SumOfRows(rows, col) ==
    IF rows = {} THEN 0
    ELSE LET i == CHOOSE r \in rows : TRUE
         IN  Parsed(i, col).n + SumOfRows(rows \ {i}, col)

\* every non-null value of the column parses, and there is one
AllParse(col) ==
    /\ NonNullRows(col) # {}
    /\ \A i \in NonNullRows(col) : ~Parsed(i, col).nan

\* C18: a column is listed in numericStats only if it has a non-null value
\* and every non-null value parses as a number; min, max and sum of an entry
\* are those of the parsed values, min <= avg <= max, and sum is avg times
\* the number of non-null values (avg being the fraction num / den).
C18_NumericStats ==
    StatsShown
    => \A k \in 1..Len(stats.numericStats) :
          LET e == stats.numericStats[k]
              rows == NonNullRows(e.column)
          IN  /\ AllParse(e.column)
              /\ \E i \in rows : e.min = Parsed(i, e.column).n
              /\ \A i \in rows : e.min <= Parsed(i, e.column).n
              /\ \E i \in rows : e.max = Parsed(i, e.column).n
              /\ \A i \in rows : e.max >= Parsed(i, e.column).n
              /\ e.sum = SumOfRows(rows, e.column)
              /\ e.avg.den > 0
              /\ e.min * e.avg.den <= e.avg.num
              /\ e.avg.num <= e.max * e.avg.den
              /\ e.sum * e.avg.den = e.avg.num * Cardinality(rows)

\* statistics of the wide result set: a column of numbers with nulls between
\* them is listed with its least value below its greatest
C18_Witness ==
    /\ StatsShown
    /\ lastResults = "wide"
    /\ \E k \in 1..Len(stats.numericStats) :
          /\ stats.numericStats[k].column = <<"N","4">>
          /\ Cardinality(NonNullRows(<<"N","4">>)) < Len(ShownRows)
          /\ stats.numericStats[k].min < stats.numericStats[k].max
          /\ stats.numericStats[k].sum = 171

\* the distinct keys of a column: the string form of each non-null value,
\* cut to 50 characters
DistinctKeys(col) ==
    {SubSeq(StringOf(Cell(ShownRows[i], col)), 1,
            Min(50, Len(StringOf(Cell(ShownRows[i], col))))) :
        i \in NonNullRows(col)}

\* a non-numeric column with a non-null value
NonNumeric(col) == NonNullRows(col) # {} /\ ~AllParse(col)

\* such a column with 2 to 20 distinct keys
InRange(col) ==
    /\ NonNumeric(col)
    /\ Cardinality(DistinctKeys(col)) >= 2
    /\ Cardinality(DistinctKeys(col)) <= 20

\* C19: a non-numeric column with a non-null value is in categoryStats if and
\* only if it has at least 2 and at most 20 distinct keys and is among the
\* first three such columns; numericStats holds the first five numeric
\* columns; both in column order.
C19_Inclusion ==
    StatsShown
    => /\ \A k \in 1..Len(ShownColumns) :
             NonNumeric(ShownColumns[k])
             => ((\E c \in 1..Len(stats.categoryStats) :
                      stats.categoryStats[c].column = ShownColumns[k])
                 <=> (/\ InRange(ShownColumns[k])
                      /\ Cardinality({j \in 1..(k - 1) :
                                         InRange(ShownColumns[j])}) < 3))
       /\ [c \in 1..Len(stats.categoryStats) |->
              stats.categoryStats[c].column]
            = Slice(SelectSeq(ShownColumns, LAMBDA col : InRange(col)), 3)
       /\ [c \in 1..Len(stats.numericStats) |-> stats.numericStats[c].column]
            = Slice(SelectSeq(ShownColumns, LAMBDA col : AllParse(col)), 5)

\* statistics of the wide result set: columns of 1 and of 21 distinct values
\* and a fourth category column are left out, a column of 20 is listed, and
\* the sixth numeric column is left out
C19_Witness ==
    /\ StatsShown
    /\ lastResults = "wide"
    /\ Cardinality(DistinctKeys(<<"T","w","e","n","t","y">>)) = 20
    /\ Cardinality(DistinctKeys(<<"T","w","e","n","t","y","O","n","e">>)) = 21
    /\ Cardinality(DistinctKeys(<<"C","u","t">>)) = 1
    /\ InRange(<<"C","a","t","4">>)
    /\ AllParse(<<"N","6">>)
    /\ Len(stats.categoryStats) = 3
    /\ Len(stats.numericStats) = 5

\* the first row in which a key occurs in a column
FirstRow(col, key) ==
    CHOOSE i \in NonNullRows(col) :
        /\ CategoryKey(Cell(ShownRows[i], col)) = key
        /\ \A j \in NonNullRows(col) :
               CategoryKey(Cell(ShownRows[j], col)) = key => i <= j

\* C20: the values of each categoryStats entry are in non-increasing order
\* of count, and values of equal count are in the order in which they first
\* occur in the rows.
C20_CountOrder ==
    StatsShown
    => \A c \in 1..Len(stats.categoryStats) :
          LET e == stats.categoryStats[c]
          IN  \A a \in 1..Len(e.values), b \in 1..Len(e.values) :
                  a < b
                  => /\ e.values[a].count >= e.values[b].count
                     /\ e.values[a].count = e.values[b].count
                           => FirstRow(e.column, e.values[a].value)
                                 < FirstRow(e.column, e.values[b].value)

-----------------------------------------------------------------------------
(* Properties of the chart of the visualization build (SpecRender)          *)

\* renderChart has just run over the rows on display
Rendered ==
    /\ event.op \in {"viz:bar", "chartType", "dataColumn"}
    /\ ~NoRows(lastResults)

\* ... and constructed a chart
ChartBuilt ==
    /\ Rendered
    /\ currentChart # 0
    /\ charts[currentChart] = 0
    /\ chartSpec.chart = currentChart

PriorityNamed(col) ==
    \E k \in 1..Len(numericPriority) :
        includes(toLowerCase(col), toLowerCase(numericPriority[k]))

\* C22: whenever the result set has a column whose every non-null value
\* parses as a number, rendering builds a chart, whatever data column is
\* selected, and the chart's value column is such a column or one named after
\* a priority keyword.
C22_NumericColumnCharted ==
    (Rendered /\ \E col \in Range(ShownColumns) : AllParse(col))
    => /\ ChartBuilt
       /\ \/ AllParse(chartSpec.valueColumn)
          \/ PriorityNamed(chartSpec.valueColumn)

\* renderChart runs in this step over rows that have no value column
NotChartableStep ==
    /\ Rendered'
    /\ ValueColumn(Table(lastResults').rows, Table(lastColumns').columns,
                   SelectedColumn(dataColumn', lastResults')) = <<>>

\* C23: when no value column is found, rendering constructs no chart, does
\* not fail (the handler ends as a rendering, with no error shown), shows
\* the informational 'not chartable' message, and leaves the result set, the
\* history and the favorites as they were.
C23_NotChartable ==
    [][NotChartableStep
       => /\ Len(charts') = Len(charts)
          /\ event'.op \in {"viz:bar", "chartType", "dataColumn"}
          /\ toasts' = <<Toast("Data not suitable for charting. Need numeric values.",
                               "info")>>
          /\ UNCHANGED <<lastResults, lastColumns, queryHistory, favorites,
                         storage>>]_vars

\* the data column was set to a column of words: the message is on display
C23_Witness ==
    /\ Rendered
    /\ lastResults = "digits"
    /\ dataColumn = ColNote
    /\ event.op = "dataColumn"
    /\ toasts = <<Toast("Data not suitable for charting. Need numeric values.",
                        "info")>>

\* a column whose name holds one of the keywords of label columns
LabelNamed(col) ==
    \E k \in 1..Len(labelPriority) : includes(toLowerCase(col), labelPriority[k])

\* C24: the label column of a chart is not named after a time or a date
\* while another column, not the value column and not so named, matches a
\* label keyword or holds strings.
C24_LabelNotTimeNamed ==
    (ChartBuilt /\ TimeNamed(chartSpec.labelColumn))
    => ~\E col \in Range(ShownColumns) :
           /\ col # chartSpec.valueColumn
           /\ ~TimeNamed(col)
           /\ \/ LabelNamed(col)
              \/ Cell(ShownRows[1], col).t = "string"

-----------------------------------------------------------------------------
(* Properties of displaying results (SpecChart) and of the chart instance    *)
(* (SpecRender)                                                             *)

\* a response without an error is handled in this step
SuccessHandled ==
    /\ Len(pending') = Len(pending) - 1
    /\ answered'.seq # answered.seq

\* C25: in either build, handling a successful response completes: the rows
\* and columns are stored, the chart is torn down (destroyed when there is
\* one, state.currentChart null), the table is shown for a non-empty result,
\* and only then the query counter goes up by one.
C25_DisplayCompletes ==
    [][SuccessHandled
       => /\ lastResults' = answered'.data.table
          /\ lastColumns' = answered'.data.table
          /\ currentChart' = 0
          /\ currentChart # 0
                => charts'[currentChart] = charts[currentChart] + 1
          /\ Table(lastResults').rows # <<>>
                => display'.resultsWrapper = "block"
          /\ queryCount' = queryCount + 1]_vars

\* C26: state.currentChart is null or a chart that has not been destroyed,
\* and destroy is called at most once on any chart.
C26_CurrentChartLive ==
    /\ currentChart # 0 => charts[currentChart] = 0
    /\ \A c \in 1..Len(charts) : charts[c] <= 1

-----------------------------------------------------------------------------
(* Property of the insights panel (SpecInsights)                            *)

\* C27: the insights text on display is the one computed for the result set
\* held in state.lastResults: an answer for an earlier result set that
\* arrives late does not take the place of the newer one's insights.
C27_InsightsAreCurrent ==
    insights.panel = "text" => insights.of = answered.seq

-----------------------------------------------------------------------------
(* Properties of the chat (SpecTalk)                                        *)

\* the transcript after the welcome message
ChatTurns ==
    IF chatHistory # <<>> /\ chatHistory[1].content = WelcomeMessage
    THEN Tail(chatHistory) ELSE chatHistory

\* a non-empty message is sent in this step
MessageSent == event'.op = "chatSent" /\ event'.query # ""

\* the request of a message settles in this step
MessageAnswered == event'.op = "chatAnswered"

\* the message of send number r is waiting for its answer
Unanswered(r) ==
    \E i \in 1..Len(chatView.typing) : chatView.typing[i].request = r

\* user and assistant turns alternate, the user first
Alternates(turns) ==
    \A k \in 1..Len(turns) :
        turns[k].role = IF k % 2 = 1 THEN "user" ELSE "assistant"

RoleCount(turns, role) ==
    Cardinality({k \in 1..Len(turns) : turns[k].role = role})

\* C28: a non-empty message that is sent appends one user turn at once, and
\* the settling of its request, whether it completes or fails, appends
\* exactly one assistant turn (the reply or the apology); every message sent
\* is eventually answered; and as long as no message was sent while another
\* was unanswered, the turns after the welcome message alternate.
C28_EveryMessageAnswered ==
    /\ [][MessageSent
          => /\ chatHistory' = Append(chatHistory,
                                      [role |-> "user",
                                       content |-> event'.query])
             /\ Len(chatRequests') = Len(chatRequests) + 1]_vars
    /\ [][MessageAnswered
          => /\ Len(chatHistory') = Len(chatHistory) + 1
             /\ SubSeq(chatHistory', 1, Len(chatHistory)) = chatHistory
             /\ chatHistory'[Len(chatHistory')].role = "assistant"
             /\ chatHistory'[Len(chatHistory')].content
                   \in {"r1", SorryMessage}
             /\ Len(chatRequests') = Len(chatRequests) - 1]_vars
    /\ [](RoleCount(ChatTurns, "user")
             = RoleCount(ChatTurns, "assistant") + Len(chatRequests))
    /\ [](~chatView.overlapped => Alternates(ChatTurns))
    /\ \A r \in 1..MaxSends : Unanswered(r) ~> ~Unanswered(r)

\* two messages sent one after the other have each got their one answer,
\* one of them the apology
C28_Witness ==
    /\ event.op = "chatAnswered"
    /\ ~chatView.overlapped
    /\ chatView.sent = 2
    /\ chatRequests = <<>>
    /\ Len(ChatTurns) = 4
    /\ \E k \in 1..Len(ChatTurns) : ChatTurns[k].content = SorryMessage
    /\ \E k \in 1..Len(ChatTurns) : ChatTurns[k].content = "r1"

\* the elements of the chat view but the typing indicator of send number r
WithoutTyping(elements, r) ==
    SelectSeq(elements, LAMBDA e : ~(e.kind = "typing" /\ e.request = r))

\* C29: when the request of a message settles, exactly its typing indicator
\* leaves the chat view: the user's message and every other element stay,
\* the reply or the apology is added below them, and no typing indicator of
\* an answered message is left on the page.
C29_TypingRemovedExactly ==
    /\ [][MessageAnswered
          => \E r \in 1..MaxSends :
                /\ Unanswered(r)
                /\ ~Unanswered(r)'
                /\ Len(chatView'.elements)
                      = Len(WithoutTyping(chatView.elements, r)) + 1
                /\ SubSeq(chatView'.elements, 1, Len(chatView'.elements) - 1)
                      = WithoutTyping(chatView.elements, r)
                /\ chatView'.elements[Len(chatView'.elements)].kind
                      = "assistant"]_vars
    /\ [](\A k \in 1..Len(chatView.elements) :
             chatView.elements[k].kind = "typing"
                => Unanswered(chatView.elements[k].request))

-----------------------------------------------------------------------------
(* Property of the views of the visualization build (SpecViews)             *)

\* a container a handler has put on display ("" is the page as loaded: no
\* handler has set the style yet)
Visible(container) == display[container] \notin {"none", ""}

\* C30: in the visualization build at most one of the results table, the
\* chart container and the statistics container is visible, and closing the
\* chart or closing the statistics makes the results table visible again.
C30_OneViewVisible ==
    /\ [](variant = "viz"
            => Cardinality({c \in {"resultsWrapper", "vizContainer",
                                   "statsContainer"} : Visible(c)}) <= 1)
    /\ [][(\/ Visible("vizContainer") /\ event'.op = "hideVisualization"
           \/ Visible("statsContainer") /\ event'.op = "hideStats")
            => Visible("resultsWrapper")']_vars

====
